---------------------------- MODULE Spec2Model ----------------------------
(***************************************************************************)
(* Workflow_App: task dashboard (TaskGrid filtering and sorting), report   *)
(* dialog and report renderers, and the task save path.                    *)
(*                                                                         *)
(* Conventions                                                             *)
(*   - a JavaScript string that is compared or searched is a sequence of   *)
(*     one-character strings (<<"A","b">> is "Ab"); enumeration tokens     *)
(*     ('job', 'urgent', ...) are TLA+ strings;                            *)
(*   - a nullable number or date is <<>> (null / undefined) or <<v>>;      *)
(*   - a nullable enumeration token uses the token "null";                 *)
(*   - an instant (a Date) is an integer number of clock ticks since the   *)
(*     epoch, TicksPerDay ticks to the day, in the time zone of the        *)
(*     browser; the first tick of a day stands for 00:00:00.000, the last  *)
(*     for 23:59:59.999, the ticks between them are evenly spread;         *)
(*   - a step is what runs between two awaits: a click or a keystroke with *)
(*     the handler and the effects it sets off, or the settling of a       *)
(*     promise with the code that waited for it;                           *)
(*   - the page is Home under AuthProvider: Home renders its content while *)
(*     the provider holds user and userData, and nothing while it does not.*)
(***************************************************************************)
EXTENDS Integers, Sequences, FiniteSets, TLC

VARIABLES
    tasks,          \* page.tsx: tasks state, as mapped by the onSnapshot listener
    isLoading,      \* page.tsx: isLoading
    listening,      \* page.tsx: the onSnapshot listener still delivers
    activeTab,      \* page.tsx: activeTab
    timeRange,      \* page.tsx: timeRange
    showRevenue,    \* page.tsx: showRevenue
    filters,        \* TaskGrid: filters
    searchQuery,    \* TaskGrid: searchQuery
    sortBy,         \* TaskGrid: sortBy
    currentPage,    \* TaskGrid: currentPage
    isGridView,     \* TaskGrid: isGridView
    isFilterOpen,   \* TaskGrid: isFilterOpen
    userSearchQuery,    \* TaskGrid: userSearchQuery
    userList,       \* TaskGrid: userList (the ids of the users it holds)
    fetching,       \* TaskGrid: the runs of fetchUsers that have not settled
    isReportDialogOpen, \* TaskGrid: isReportDialogOpen
    now,            \* the clock: new Date()
    period,         \* ReportDialog: period
    selectedDate,   \* ReportDialog: selectedDate
    startDate,      \* ReportDialog: startDate
    endDate,        \* ReportDialog: endDate
    include,        \* ReportDialog: includeCompleted ... includeJobs
    selectedTasks,  \* ReportDialog: selectedTasks (the ids, as a set)
    isEmailDialogOpen,  \* ReportDialog: isEmailDialogOpen
    reportSearch,   \* ReportDialog: searchQuery
    today,          \* ReportDialog: today, of its latest render
    emitted,        \* what the last step handed out: a report, or nothing
    toast,          \* the message the last step showed with toast(), if any
    store,          \* Firestore: the "tasks" collection, document id -> data
    storage,        \* Firebase Storage: the bucket, full path -> object stored
    editingTask,    \* page.tsx: editingTask
    isTaskDialogOpen,   \* page.tsx: isTaskDialogOpen
    form,           \* TaskDialog: the form fields
    showPreview,    \* TaskDialog: showPreview
    formToday,      \* TaskDialog: today, of its latest render
    saving,         \* TaskDialog: isUploading, and the run of handleSave in flight
    saves,          \* number of writes to the collection so far
    auth,           \* Firebase Auth and AuthProvider: session, user, userData, ...
    mail,           \* EmailReportDialog: its state, and the POSTs to /api/email
    deletion        \* TaskList / TaskCard: taskToDelete, showDeleteConfirm; the onDelete calls

overviewVars == <<timeRange, showRevenue>>
pageVars == <<tasks, isLoading, listening, activeTab, timeRange, showRevenue>>
gridControls == <<filters, searchQuery, sortBy, currentPage>>
usersVars == <<userList, fetching>>
dialogVars == <<period, selectedDate, startDate, endDate, include,
                selectedTasks, isEmailDialogOpen>>
backendVars == <<store, storage, saves>>
taskDialogVars == <<editingTask, isTaskDialogOpen, form, showPreview, saving>>
vars == <<tasks, isLoading, listening, activeTab, timeRange, showRevenue, filters, searchQuery, sortBy,
          currentPage, isGridView, isFilterOpen, userSearchQuery, userList,
          fetching, isReportDialogOpen, now,
          period, selectedDate, startDate, endDate, include, selectedTasks,
          isEmailDialogOpen, reportSearch, today, emitted, toast, store, storage,
          editingTask, isTaskDialogOpen, form, showPreview, formToday, saving,
          saves, auth, mail, deletion>>

-----------------------------------------------------------------------------
(* Bounds of the model *)

MaxTasks == 3       \* largest task collection delivered by a snapshot
MaxChecked == 2     \* most filter controls active at once
TicksPerDay == 3    \* resolution of the clock
FileLimit == 50     \* TaskDialog.handleFileChange: most files of a task
WindowBack == 10    \* days before the first day that a calendar offers
MaxDayAdvance == 1  \* days the clock may advance
MaxExcluded == 1    \* most include-flags of the report dialog switched off
MaxSelected == 2    \* most tasks ticked one by one in the report dialog
MaxFetches == 1     \* most runs of fetchUsers pending at once
MaxSaves == 1       \* most writes of handleSaveTask that go through
MaxFiles == 2       \* most files chosen in the task form
MaxInFlight == 2    \* most uploads on their way to the bucket at once
MaxSignIns == 1     \* most calls of signIn
MaxSignUps == 1     \* most calls of signUp
MaxLogouts == 1     \* most calls of logout
MaxSends == 2       \* most runs of handleSend that reach sendReportEmail
MaxDeletes == 2     \* most calls of onDelete
LimitMargin == 2    \* most slots left by the documents of a task near the file limit
MaxPageTasks == 12  \* largest task collection of the pagination
MaxPage == 3        \* largest page number the pagination is taken to
ITEMS_PER_PAGE == 10    \* TaskGrid: tasks on a page
FormBack == 1        \* days before the first day that a date picker of the form offers
DatedDays == 2       \* days before the first day that the dates of a dated collection lie in

-----------------------------------------------------------------------------
(* Generic helpers for JavaScript values *)

NULL == "null"
None == <<>>
Some(v) == <<v>>
IsSome(o) == o # <<>>
Val(o) == o[1]

\* JavaScript truthiness of a nullable number: null, undefined and 0 are falsy.
Truthy(o) == IsSome(o) /\ Val(o) # 0

\* (o || null) for a nullable number
OrNull(o) == IF Truthy(o) THEN o ELSE None

\* (o || 0) for a nullable number
OrZero(o) == IF Truthy(o) THEN Val(o) ELSE 0

Range(s) == {s[i] : i \in DOMAIN s}

\* the letters of the model's alphabet
LowerLetters == <<"a", "b", "c", "d", "e", "f", "g", "h", "i", "j", "k", "l", "m",
                  "n", "o", "p", "q", "r", "s", "t", "u", "v", "w", "x", "y", "z">>
UpperLetters == <<"A", "B", "C", "D", "E", "F", "G", "H", "I", "J", "K", "L", "M",
                  "N", "O", "P", "Q", "R", "S", "T", "U", "V", "W", "X", "Y", "Z">>
Digits == <<"0", "1", "2", "3", "4", "5", "6", "7", "8", "9">>

\* the position of c in the sequence s, 0 when it is not there
IndexIn(s, c) == IF \E i \in DOMAIN s : s[i] = c THEN CHOOSE i \in DOMAIN s : s[i] = c ELSE 0

\* String.prototype.toLowerCase
ToLowerChar(c) ==
    IF IndexIn(UpperLetters, c) > 0 THEN LowerLetters[IndexIn(UpperLetters, c)] ELSE c

ToLower(s) == [i \in DOMAIN s |-> ToLowerChar(s[i])]

\* String.prototype.includes: q occurs in s as a contiguous substring
Includes(s, q) ==
    \E k \in 0..(Len(s) - Len(q)) :
        \A i \in 1..Len(q) : s[k + i] = q[i]

-----------------------------------------------------------------------------
(* Dates: the date-fns functions the program calls, on the proleptic       *)
(* Gregorian calendar.                                                     *)

\* days since 1970-01-01 of the civil date y-m-d
DaysFromCivil(y, m, d) ==
    LET yy == IF m <= 2 THEN y - 1 ELSE y
        era == yy \div 400
        yoe == yy - era * 400
        mp == IF m > 2 THEN m - 3 ELSE m + 9
        doy == (153 * mp + 2) \div 5 + d - 1
        doe == yoe * 365 + yoe \div 4 - yoe \div 100 + doy
    IN era * 146097 + doe - 719468

\* the civil date of day z since 1970-01-01, computed era by era: doe is the
\* day of the 400-year era, yoe the year of the era, doy the day of the year
\* counted from 1 March, mp the month counted from March
CivilOfMp(era, yoe, doy, mp) ==
    [y |-> yoe + era * 400 + (IF mp < 10 THEN 0 ELSE 1),
     m |-> IF mp < 10 THEN mp + 3 ELSE mp - 9,
     d |-> doy - (153 * mp + 2) \div 5 + 1]

CivilOfDoy(era, yoe, doy) == CivilOfMp(era, yoe, doy, (5 * doy + 2) \div 153)

CivilOfYoe(era, doe, yoe) ==
    CivilOfDoy(era, yoe, doe - (365 * yoe + yoe \div 4 - yoe \div 100))

CivilOfDoe(era, doe) ==
    CivilOfYoe(era, doe,
               (doe - doe \div 1460 + doe \div 36524 - doe \div 146096) \div 365)

CivilOfEra(zz, era) == CivilOfDoe(era, zz - era * 146097)

CivilFromDays(z) == CivilOfEra(z + 719468, (z + 719468) \div 146097)

DayOf(t) == t \div TicksPerDay
At(day, tick) == day * TicksPerDay + tick

\* 0 = Sunday; 1970-01-01 was a Thursday
Weekday(day) == (day + 4) % 7

startOfDay(t) == At(DayOf(t), 0)
endOfDay(t) == At(DayOf(t), TicksPerDay - 1)

\* a week that starts on Monday; the week of the program is told apart from
\* it by the weekday of the start of a resolved week
startOfWeekMonday(t) == At(DayOf(t) - ((Weekday(DayOf(t)) + 6) % 7), 0)

\* weekStartsOn defaults to Sunday
startOfWeek(t) == At(DayOf(t) - Weekday(DayOf(t)), 0)
endOfWeek(t) == At(DayOf(t) - Weekday(DayOf(t)) + 6, TicksPerDay - 1)

FirstOfMonth(y, m) == DaysFromCivil(y, m, 1)
FirstOfNextMonth(y, m) ==
    IF m = 12 THEN DaysFromCivil(y + 1, 1, 1) ELSE DaysFromCivil(y, m + 1, 1)

startOfMonth(t) ==
    LET c == CivilFromDays(DayOf(t)) IN At(FirstOfMonth(c.y, c.m), 0)
endOfMonth(t) ==
    LET c == CivilFromDays(DayOf(t)) IN At(FirstOfNextMonth(c.y, c.m), 0) - 1

QuarterStartMonth(m) == m - ((m - 1) % 3)

startOfQuarter(t) ==
    LET c == CivilFromDays(DayOf(t)) IN
    At(FirstOfMonth(c.y, QuarterStartMonth(c.m)), 0)
endOfQuarter(t) ==
    LET c == CivilFromDays(DayOf(t)) IN
    At(FirstOfNextMonth(c.y, QuarterStartMonth(c.m) + 2), 0) - 1

startOfYear(t) ==
    LET c == CivilFromDays(DayOf(t)) IN At(DaysFromCivil(c.y, 1, 1), 0)
endOfYear(t) ==
    LET c == CivilFromDays(DayOf(t)) IN At(DaysFromCivil(c.y + 1, 1, 1), 0) - 1

isAfter(a, b) == a > b
isBefore(a, b) == a < b

\* the day the clock starts on: Wednesday 2024-01-03
StartDay == DaysFromCivil(2024, 1, 3)

-----------------------------------------------------------------------------
(* Program enumerations and constants *)

Statuses == {"not-initiated", "in-progress", "completed"}
Types == {"project", "job"}
Priorities == {"low", "medium", "high", "urgent"}
MaterialStatuses == {"ordered", "yet-to-be-shipped", "in-transit", "received"}
SortOptions == {"newest", "oldest", "title-asc", "title-desc",
                "priority-high", "priority-low", "price-high", "price-low"}

PRIORITY_ORDER(p) ==
    CASE p = "urgent" -> 4
      [] p = "high" -> 3
      [] p = "medium" -> 2
      [] p = "low" -> 1

initialFilters ==
    [status |-> {}, types |-> {}, users |-> {}, materialStatus |-> {},
     priorities |-> {}, requiresMaterial |-> NULL, hasDocuments |-> NULL,
     hasPrice |-> NULL]

-----------------------------------------------------------------------------
(* The task documents of the "tasks" collection.  A document is what       *)
(* handleSaveTask wrote, or a document written before a field existed: a   *)
(* missing field is the token "null" / None.                               *)

Users == {"u1", "u2"}

\* users collection, as read by TaskGrid.fetchUsers
UserDoc(u) ==
    IF u = "u1" THEN [id |-> "u1", name |-> <<"A", "l">>, email |-> <<"a", "@">>]
    ELSE IF u = "u2" THEN [id |-> "u2", name |-> <<"B", "o">>, email |-> <<"b", "@">>]
    ELSE [id |-> u, name |-> <<"N">>, email |-> <<"n", "@">>]

\* the account signUp creates
NewAccount == "u4"

\* users/<uid>.role, for the accounts that have a document; ensureUserDocument
\* writes the document of a new account with the role admin
UserRole(uid) == IF uid \in {"u1", NewAccount} THEN "admin" ELSE "user"

Doc(id, title, site, status, type, priority, userId, createdAt, reqMat, matStatus, matDesc, images, quoted, confirmed, wcs, po, initiated, completed) ==
    [id |-> id, title |-> title, site |-> site, description |-> <<"d">>,
     notes |-> <<>>, status |-> status, type |-> type, priority |-> priority,
     source |-> "call", dateInitiated |-> initiated, dateCompleted |-> completed,
     userId |-> userId, createdAt |-> createdAt, requiresMaterial |-> reqMat,
     materialStatus |-> matStatus, materialDescription |-> matDesc,
     images |-> images, quotedPrice |-> quoted, confirmedPrice |-> confirmed,
     uploaderEmail |-> UserDoc(userId).email,
     workConfirmationStatus |-> wcs, poNumber |-> po,
     updatedAt |-> createdAt, timeSlots |-> <<>>]

DocPool ==
    { Doc("t1", <<"b">>, <<"l", "a", "b">>, "in-progress", "project", "high",
          "u1", At(StartDay - 1, 1), TRUE, "ordered", <<"o", "a", "k">>, <<"f1">>,
          Some(100), None, "confirmed", <<"P", "1">>,
          Some(At(StartDay - 1, 0)), None),
      Doc("t2", <<"A">>, <<"l", "o", "t">>, "completed", "job", "urgent",
          "u2", At(StartDay - 9, 2), FALSE, NULL, <<>>, <<>>,
          Some(50), Some(80), "confirmed", <<>>,
          Some(At(StartDay - 9, 0)), Some(At(StartDay - 2, 0))),
      Doc("t3", <<"a">>, <<"b", "a", "y">>, "not-initiated", "job", "low",
          "u1", At(StartDay - 4, 0), TRUE, "received", <<"t", "i", "l", "e">>, <<"f2", "f3">>,
          None, None, "awaiting", <<>>, None, None),
      Doc("t4", <<"B">>, <<"l", "a", "b">>, "in-progress", "job", "high",
          "u2", At(StartDay - 10, 0), FALSE, NULL, <<>>, <<>>,
          Some(80), Some(0), "awaiting", <<>>,
          Some(At(StartDay - 8, 0)), None),
      Doc("t5", <<"a", "b">>, <<"o", "a", "k">>, "completed", "project", NULL,
          "u1", At(StartDay - 9, 2), TRUE, "in-transit", <<>>, <<"f4">>,
          None, Some(100), "confirmed", <<"P", "2">>,
          Some(At(StartDay - 7, 0)), Some(At(StartDay - 7, 0))) }

\* page.tsx onSnapshot: document -> Task
SnapshotTask(d) ==
    [d EXCEPT
        !.priority = IF d.priority = NULL THEN "medium" ELSE d.priority,
        !.quotedPrice = OrNull(d.quotedPrice),
        !.confirmedPrice = OrNull(d.confirmedPrice)]

TaskPool == {SnapshotTask(d) : d \in DocPool}

\* query(tasksRef, orderBy("createdAt", "desc")): every snapshot is ordered
\* newest first; documents with equal createdAt come in either order.
IsSnapshot(s) ==
    /\ \A i, j \in DOMAIN s : i # j => s[i].id # s[j].id
    /\ \A i, j \in DOMAIN s : i < j => s[i].createdAt >= s[j].createdAt

Snapshots ==
    {s \in UNION {[1..n -> TaskPool] : n \in 0..MaxTasks} : IsSnapshot(s)}

-----------------------------------------------------------------------------
(* TaskGrid: the filter step of filteredAndSortedTasks *)

\* userList.find(u => u.id === task.userId): the entry of the user, or
\* undefined (None) while userList does not hold it
UserFind(task) ==
    IF task.userId \in userList THEN Some(UserDoc(task.userId)) ELSE None

\* the search predicate; the signed-in user is an admin (AuthContext admits
\* no other role)
MatchesSearch(task, q) ==
    LET query == ToLower(q) IN
    \/ Includes(ToLower(task.title), query)
    \/ Includes(ToLower(task.description), query)
    \/ Includes(ToLower(task.site), query)
    \/ Includes(ToLower(task.notes), query)
    \/ (task.materialDescription # <<>>
          /\ Includes(ToLower(task.materialDescription), query))
    \/ Includes(ToLower(task.uploaderEmail), query)
    \/ (IsSome(UserFind(task)) /\ Includes(ToLower(Val(UserFind(task)).name), query))
    \/ (IsSome(UserFind(task)) /\ Includes(ToLower(Val(UserFind(task)).email), query))

HasPriceMatch(task, want) ==
    IF want = "true"
    THEN IsSome(task.quotedPrice) \/ IsSome(task.confirmedPrice)
    ELSE ~IsSome(task.quotedPrice) /\ ~IsSome(task.confirmedPrice)

HasDocumentsMatch(task, want) ==
    IF want = "true" THEN Len(task.images) > 0 ELSE Len(task.images) = 0

RequiresMaterialMatch(task, want) ==
    task.requiresMaterial = (want = "true")

MaterialStatusMatch(task, wanted) ==
    task.materialStatus # NULL /\ task.materialStatus \in wanted

\* a filter step under which an empty status set excludes every task; the
\* filter step of the grid is told apart from it by the identity on the
\* initial configuration
FilterStepEmptyExcludes(ts, f, q) ==
    SelectSeq(ts, LAMBDA t : t.status \in f.status)

\* if (on) result = result.filter(keep)
Narrowed(result, on, keep(_)) == IF on THEN SelectSeq(result, keep) ELSE result

FilterStep(ts, f, q) ==
    LET r0 == Narrowed(ts, q # <<>>, LAMBDA t : MatchesSearch(t, q))
        r1 == Narrowed(r0, f.status # {}, LAMBDA t : t.status \in f.status)
        r2 == Narrowed(r1, f.types # {}, LAMBDA t : t.type \in f.types)
        r3 == Narrowed(r2, f.priorities # {}, LAMBDA t : t.priority \in f.priorities)
        r4 == Narrowed(r3, f.users # {}, LAMBDA t : t.userId \in f.users)
        r5 == Narrowed(r4, f.materialStatus # {},
                       LAMBDA t : MaterialStatusMatch(t, f.materialStatus))
        r6 == Narrowed(r5, f.requiresMaterial # NULL,
                       LAMBDA t : RequiresMaterialMatch(t, f.requiresMaterial))
        r7 == Narrowed(r6, f.hasDocuments # NULL,
                       LAMBDA t : HasDocumentsMatch(t, f.hasDocuments))
        r8 == Narrowed(r7, f.hasPrice # NULL, LAMBDA t : HasPriceMatch(t, f.hasPrice))
    IN r8

-----------------------------------------------------------------------------
(* TaskGrid: the sort step of filteredAndSortedTasks *)

\* String.prototype.localeCompare: the strings are compared by the primary
\* weights of their characters (space, then punctuation, then the digits, then
\* the letters in alphabetical order, a letter and its capital alike); strings
\* equal on these are told apart by case, lower case before upper case at the
\* first difference.
CharRank(c) ==
    CASE c = " " -> 1
      [] c = "." -> 2
      [] c = "@" -> 3
      [] IndexIn(Digits, c) > 0 -> 3 + IndexIn(Digits, c)
      [] OTHER -> 13 + IndexIn(LowerLetters, ToLowerChar(c))

RECURSIVE PrimaryCompare(_, _)
PrimaryCompare(a, b) ==
    IF a = <<>> /\ b = <<>> THEN 0
    ELSE IF a = <<>> THEN -1
    ELSE IF b = <<>> THEN 1
    ELSE IF CharRank(Head(a)) < CharRank(Head(b)) THEN -1
    ELSE IF CharRank(Head(a)) > CharRank(Head(b)) THEN 1
    ELSE PrimaryCompare(Tail(a), Tail(b))

IsUpper(c) == ToLowerChar(c) # c

RECURSIVE CaseCompare(_, _)
CaseCompare(a, b) ==
    IF a = <<>> \/ b = <<>> THEN 0
    ELSE IF ~IsUpper(Head(a)) /\ IsUpper(Head(b)) THEN -1
    ELSE IF IsUpper(Head(a)) /\ ~IsUpper(Head(b)) THEN 1
    ELSE CaseCompare(Tail(a), Tail(b))

LocaleCompare(a, b) ==
    IF PrimaryCompare(a, b) # 0 THEN PrimaryCompare(a, b) ELSE CaseCompare(a, b)

\* a price that prefers the quoted price; the effective price is told apart
\* from it by a task that carries both prices
QuotedFirstPrice(t) ==
    IF Truthy(t.quotedPrice) THEN Val(t.quotedPrice)
    ELSE OrZero(t.confirmedPrice)

\* a.confirmedPrice || a.quotedPrice || 0
EffectivePrice(t) ==
    IF Truthy(t.confirmedPrice) THEN Val(t.confirmedPrice)
    ELSE OrZero(t.quotedPrice)

\* a.priority || 'medium'
PriorityRank(t) ==
    PRIORITY_ORDER(IF t.priority = NULL THEN "medium" ELSE t.priority)

\* a comparator whose priority modes break ties oldest first; the comparator
\* of the grid is told apart from it by two tasks of one rank
CompareTieOldest(mode, a, b) ==
    CASE mode = "priority-high" ->
            IF PriorityRank(a) # PriorityRank(b)
            THEN PriorityRank(b) - PriorityRank(a)
            ELSE a.createdAt - b.createdAt
      [] mode = "priority-low" ->
            IF PriorityRank(a) # PriorityRank(b)
            THEN PriorityRank(a) - PriorityRank(b)
            ELSE a.createdAt - b.createdAt
      [] OTHER -> b.createdAt - a.createdAt

\* the comparator passed to result.sort
Compare(mode, a, b) ==
    CASE mode = "newest" -> b.createdAt - a.createdAt
      [] mode = "oldest" -> a.createdAt - b.createdAt
      [] mode = "title-asc" -> LocaleCompare(a.title, b.title)
      [] mode = "title-desc" -> LocaleCompare(b.title, a.title)
      [] mode = "priority-high" ->
            IF PriorityRank(a) # PriorityRank(b)
            THEN PriorityRank(b) - PriorityRank(a)
            ELSE b.createdAt - a.createdAt
      [] mode = "priority-low" ->
            IF PriorityRank(a) # PriorityRank(b)
            THEN PriorityRank(a) - PriorityRank(b)
            ELSE b.createdAt - a.createdAt
      [] mode = "price-high" -> EffectivePrice(b) - EffectivePrice(a)
      [] mode = "price-low" -> EffectivePrice(a) - EffectivePrice(b)
      [] OTHER -> 0

\* an insertion that puts x in front of the elements it ties with; the
\* stable sort is told apart from it by sorting a sorted list with a tie
RECURSIVE InsertBeforeTies(_, _, _)
InsertBeforeTies(s, x, mode) ==
    IF s = <<>> THEN <<x>>
    ELSE IF Compare(mode, Head(s), x) >= 0 THEN <<x>> \o s
    ELSE <<Head(s)>> \o InsertBeforeTies(Tail(s), x, mode)

\* Array.prototype.sort is stable: x goes behind every element that does not
\* compare greater than it.
RECURSIVE InsertSorted(_, _, _)
InsertSorted(s, x, mode) ==
    IF s = <<>> THEN <<x>>
    ELSE IF Compare(mode, Head(s), x) > 0 THEN <<x>> \o s
    ELSE <<Head(s)>> \o InsertSorted(Tail(s), x, mode)

RECURSIVE SortTasks(_, _)
SortTasks(s, mode) ==
    IF s = <<>> THEN <<>>
    ELSE InsertSorted(SortTasks(SubSeq(s, 1, Len(s) - 1), mode), s[Len(s)], mode)

filteredTasks == FilterStep(tasks, filters, searchQuery)

filteredAndSortedTasks == SortTasks(filteredTasks, sortBy)

-----------------------------------------------------------------------------
(* What is rendered, and when *)

NoReport == [kind |-> "none"]

\* toast({title, description}); NoToast when the step shows none
Toast(title, description) == [title |-> title, description |-> description]
NoToast == Toast("", "")

\* Home: if (!user || !userData) return null; the content of the page is
\* rendered while the provider holds both
HomeShown(a) == IsSome(a.user) /\ IsSome(a.userData)

\* const today = endOfDay(new Date()) in the body of ReportDialog and of
\* TaskDialog: the value of the render, kept by the handlers and the
\* calendars of that render until the component renders again
RenderedToday(clock) == endOfDay(clock)

\* The renders a step sets off.  A component renders when its own state is
\* given a new value and when its parent renders: ReportDialog with TaskGrid
\* and Home, TaskDialog with Home.  A step that shows a toast may render
\* Home as well: useToast (hooks/use-toast, not part of the sources at hand)
\* keeps the toasts in a state of the component that calls it.  While Home
\* renders nothing, neither dialog is on the page.
Renders(report, dialog) ==
    \E home \in (IF toast' # NoToast THEN BOOLEAN ELSE {FALSE}) :
        /\ today' = IF HomeShown(auth) /\ (report \/ home)
                     THEN RenderedToday(now') ELSE today
        /\ formToday' = IF HomeShown(auth) /\ (dialog \/ home)
                         THEN RenderedToday(now') ELSE formToday

\* Radix Dialog and AlertDialog are modal: while one is open, nothing
\* outside it takes a click; the controls of the page are there while Home
\* renders its content
NoModal ==
    /\ HomeShown(auth)
    /\ ~isTaskDialogOpen /\ ~isReportDialogOpen /\ ~isEmailDialogOpen
    /\ ~deletion.showDeleteConfirm

\* the controls of TaskGrid are rendered in the "tasks" tab once the first
\* snapshot or the error of the listener has cleared isLoading
GridUsable == activeTab = "tasks" /\ ~isLoading /\ NoModal

-----------------------------------------------------------------------------
(* TaskGrid: fetchUsers *)

\* Array.from(new Set(tasks.map(task => task.userId)))
uniqueUserIds(ts) == {ts[i].userId : i \in DOMAIN ts}

\* the effect on [tasks, userData.role] calls fetchUsers: with no task the
\* empty Promise.all settles and setUserList([]) runs before anything else can
\* happen; otherwise the getDoc calls are pending
FetchUsersStarted(ts, f) ==
    IF uniqueUserIds(ts) = {} THEN f ELSE Append(f, uniqueUserIds(ts))

UserListAfterStart(ts, ul) == IF uniqueUserIds(ts) = {} THEN {} ELSE ul

\* a run of fetchUsers can be started
FetchUsersAllowed(ts) == uniqueUserIds(ts) # {} => Len(fetching) < MaxFetches

RemoveAt(s, i) == SubSeq(s, 1, i - 1) \o SubSeq(s, i + 1, Len(s))

\* Array.prototype.slice(start, end) with 0 <= start <= end
slice(list, start, end) == SubSeq(list, start + 1, IF end < Len(list) THEN end ELSE Len(list))

Elements(list) == {list[i] : i \in DOMAIN list}

\* TaskList keeps showDeleteConfirm and taskToDelete and is rendered while the
\* filtered list holds a task; in the grid view each TaskCard keeps its own
\* and is rendered (keyed by task.id) while its task is on the page.  A
\* component that is taken off the page loses its state; one that holds
\* its initial state has none to lose.
DeletionRendered(d, shown, page, grid) ==
    IF ~IsSome(d.taskToDelete) /\ ~d.showDeleteConfirm THEN d
    ELSE
    IF (IF grid
        THEN IsSome(d.taskToDelete)
             /\ Val(d.taskToDelete)
                  \notin {t.id : t \in Elements(slice(shown, (page - 1) * ITEMS_PER_PAGE,
                                                      page * ITEMS_PER_PAGE))}
        ELSE Len(shown) = 0)
    THEN [d EXCEPT !.taskToDelete = None, !.showDeleteConfirm = FALSE]
    ELSE d

-----------------------------------------------------------------------------
(* TaskGrid: the controls *)

SearchQueries == {<<>>, <<"o", "A">>, <<"A", "l">>}

\* what is typed into the "Search users..." input
UserSearches == {<<>>, <<"B">>}

\* filteredUsers: userList while userSearchQuery is empty, else the users
\* whose name or email holds the query, letter case aside
filteredUsers(ul, q) ==
    IF q = <<>> THEN ul
    ELSE {u \in ul : \/ Includes(ToLower(UserDoc(u).name), ToLower(q))
                     \/ Includes(ToLower(UserDoc(u).email), ToLower(q))}

\* the "Filter by User" section is rendered for userData.role === 'admin'
UserFilterShown == IsSome(auth.userData) /\ UserRole(Val(auth.userData)) = "admin"

\* the checkboxes of a multi-select filter; those of the users are rendered
\* from filteredUsers
MultiOptions(dim) ==
    CASE dim = "status" -> Statuses
      [] dim = "types" -> Types
      [] dim = "priorities" -> Priorities
      [] dim = "materialStatus" -> MaterialStatuses
      [] dim = "users" -> IF UserFilterShown
                          THEN filteredUsers(userList, userSearchQuery) ELSE {}

MultiDims == {"status", "types", "priorities", "materialStatus", "users"}
TriDims == {"requiresMaterial", "hasDocuments", "hasPrice"}

CheckedCount(f) ==
    Cardinality(f.status) + Cardinality(f.types) + Cardinality(f.priorities)
    + Cardinality(f.materialStatus) + Cardinality(f.users)
    + Cardinality({d \in TriDims : f[d] # NULL})

\* onCheckedChange of a multi-select checkbox
ToggleValue(set, v, checked) == IF checked THEN set \cup {v} ELSE set \ {v}

\* onCheckedChange of a tri-state checkbox: checked === 'indeterminate' ? null : checked
TriChecked(checked) == IF checked THEN "true" ELSE "false"

\* a step of a control of the grid hands out no report, shows no toast and
\* renders TaskGrid (and ReportDialog below it) when rendered holds
GridFrame(rendered) ==
    /\ emitted' = NoReport /\ toast' = NoToast
    /\ UNCHANGED <<pageVars, usersVars, now, dialogVars, reportSearch, backendVars,
                   taskDialogVars, auth, mail, deletion>>
    /\ Renders(rendered, FALSE)

GridInit ==
    /\ tasks = <<>>
    /\ isLoading = TRUE
    /\ listening = FALSE
    /\ activeTab = "overview"
    /\ timeRange = "daily"
    /\ showRevenue = FALSE
    /\ filters = initialFilters
    /\ searchQuery = <<>>
    /\ sortBy = "priority-high"
    /\ currentPage = 1
    /\ isGridView = FALSE
    /\ isFilterOpen = FALSE
    /\ userSearchQuery = <<>>
    /\ userList = {}
    /\ fetching = <<>>
    /\ isReportDialogOpen = FALSE

\* the content of the filter Popover is rendered while isFilterOpen holds
FilterShown == GridUsable /\ isFilterOpen

\* onOpenChange of the filter Popover: the "Filters" button opens and closes
\* it, a click outside it or Escape closes it
SetIsFilterOpen ==
    /\ GridUsable
    /\ isFilterOpen' = ~isFilterOpen
    /\ UNCHANGED <<filters, searchQuery, sortBy, currentPage, isGridView,
                   userSearchQuery, isReportDialogOpen>>
    /\ GridFrame(TRUE)

\* onChange of the "Search users..." input: the text has changed
SetUserSearchQuery ==
    \E q \in UserSearches :
        /\ FilterShown /\ UserFilterShown
        /\ q # userSearchQuery
        /\ userSearchQuery' = q
        /\ UNCHANGED <<filters, searchQuery, sortBy, currentPage, isGridView,
                       isFilterOpen, isReportDialogOpen>>
        /\ GridFrame(TRUE)

\* a click on a checkbox of a multi-select filter: the new state is the
\* opposite of the displayed one
ToggleMulti ==
    \E dim \in MultiDims : \E v \in MultiOptions(dim) :
        LET checked == v \notin filters[dim] IN
        /\ FilterShown
        /\ checked => CheckedCount(filters) < MaxChecked
        /\ filters' = [filters EXCEPT ![dim] = ToggleValue(filters[dim], v, checked)]
        /\ UNCHANGED <<searchQuery, sortBy, currentPage, isGridView, isFilterOpen, userSearchQuery, isReportDialogOpen>>
        /\ GridFrame(TRUE)

\* a click on a tri-state checkbox, displayed checked iff the filter is true
ToggleTri ==
    \E dim \in TriDims :
        LET checked == filters[dim] # "true" IN
        /\ FilterShown
        /\ filters[dim] = NULL => CheckedCount(filters) < MaxChecked
        /\ filters' = [filters EXCEPT ![dim] = TriChecked(checked)]
        /\ UNCHANGED <<searchQuery, sortBy, currentPage, isGridView, isFilterOpen, userSearchQuery, isReportDialogOpen>>
        /\ GridFrame(TRUE)

\* "Reset Filters": setFilters(initialFilters).  While filters is still the
\* object it was initialised with, the call changes nothing and nothing is
\* rendered; a filters object made by a toggle is replaced, equal or not.
ResetFilters ==
    /\ FilterShown
    /\ filters' = initialFilters
    /\ UNCHANGED <<searchQuery, sortBy, currentPage, isGridView, isFilterOpen, userSearchQuery, isReportDialogOpen>>
    /\ \E rendered \in (IF filters = initialFilters THEN BOOLEAN ELSE {TRUE}) :
            GridFrame(rendered)

\* onChange of the search input: the text has changed
SearchChange ==
    \E q \in SearchQueries :
        /\ GridUsable
        /\ q # searchQuery
        /\ searchQuery' = q
        /\ currentPage' = 1
        /\ UNCHANGED <<filters, sortBy, isGridView, isFilterOpen, userSearchQuery, isReportDialogOpen>>
        /\ GridFrame(TRUE)

\* onValueChange of the sort Select: another option is chosen
SortChange ==
    \E m \in SortOptions :
        /\ GridUsable
        /\ m # sortBy
        /\ sortBy' = m
        /\ UNCHANGED <<filters, searchQuery, currentPage, isGridView, isFilterOpen, userSearchQuery, isReportDialogOpen>>
        /\ GridFrame(TRUE)

\* the list and grid buttons: setIsGridView(false), setIsGridView(true)
SetGridView ==
    \E v \in BOOLEAN :
        /\ GridUsable
        /\ isGridView' = v
        /\ UNCHANGED <<filters, searchQuery, sortBy, currentPage, isFilterOpen,
                       userSearchQuery, isReportDialogOpen>>
        /\ GridFrame(v # isGridView)

\* "Generate Report": setIsReportDialogOpen(true)
OpenReportDialog ==
    /\ GridUsable
    /\ isReportDialogOpen' = TRUE
    /\ UNCHANGED <<filters, searchQuery, sortBy, currentPage, isGridView, isFilterOpen, userSearchQuery>>
    /\ GridFrame(TRUE)

\* onOpenChange(false) of the report dialog; its state stays as it is
CloseReportDialog ==
    /\ isReportDialogOpen /\ ~isEmailDialogOpen
    /\ isReportDialogOpen' = FALSE
    /\ UNCHANGED <<filters, searchQuery, sortBy, currentPage, isGridView, isFilterOpen, userSearchQuery>>
    /\ GridFrame(TRUE)

-----------------------------------------------------------------------------
(* TaskGrid: pagination *)

\* Math.ceil(filteredAndSortedTasks.length / ITEMS_PER_PAGE)
totalPages == (Len(filteredAndSortedTasks) + ITEMS_PER_PAGE - 1) \div ITEMS_PER_PAGE

startIndex == (currentPage - 1) * ITEMS_PER_PAGE
endIndex == startIndex + ITEMS_PER_PAGE

\* filteredAndSortedTasks.slice(startIndex, endIndex)
currentTasks == slice(filteredAndSortedTasks, startIndex, endIndex)

\* the pages the pagination offers, rendered when totalPages > 1: a link for
\* each page, Previous unless currentPage === 1, Next unless
\* currentPage === totalPages
PageTargets ==
    IF totalPages > 1
    THEN (1..totalPages)
         \cup (IF currentPage = 1 THEN {} ELSE {currentPage - 1})
         \cup (IF currentPage = totalPages THEN {} ELSE {currentPage + 1})
    ELSE {}

handlePageChange ==
    \E page \in PageTargets :
        /\ GridUsable
        /\ page <= MaxPage
        /\ currentPage' = page
        /\ UNCHANGED <<filters, searchQuery, sortBy, isGridView, isFilterOpen, userSearchQuery, isReportDialogOpen>>
        /\ GridFrame(page # currentPage)

-----------------------------------------------------------------------------
(* page.tsx: the listener on the tasks collection *)

DocOf(id) == CHOOSE d \in DocPool : d.id = id

\* the success callback of onSnapshot: setTasks(taskList), setIsLoading(false);
\* Home renders, and TaskGrid, when it is mounted, runs its effect on tasks
Delivered(s) ==
    /\ listening
    /\ activeTab = "tasks" => FetchUsersAllowed(s)
    /\ tasks' = s
    /\ isLoading' = FALSE
    /\ fetching' = IF activeTab = "tasks" THEN FetchUsersStarted(s, fetching) ELSE fetching
    /\ userList' = IF activeTab = "tasks" THEN UserListAfterStart(s, userList) ELSE userList
    /\ emitted' = NoReport /\ toast' = NoToast
    /\ UNCHANGED <<listening, activeTab, overviewVars, gridControls, isGridView, isFilterOpen, userSearchQuery, isReportDialogOpen,
                   now, dialogVars, reportSearch, storage, saves, taskDialogVars,
                   auth, mail>>
    /\ deletion' = DeletionRendered(deletion, filteredAndSortedTasks', currentPage, isGridView)
    /\ Renders(TRUE, TRUE)

\* another session rewrites the collection and the onSnapshot listener
\* delivers it
TasksSnapshot ==
    \E s \in Snapshots :
        /\ store' = [id \in {s[i].id : i \in DOMAIN s} |-> DocOf(id)]
        /\ Delivered(s)

\* the error callback of onSnapshot: the toast, setIsLoading(false); the
\* listener delivers nothing after its error.  setIsLoading(false) renders
\* Home while isLoading holds; when a snapshot has cleared it already, the
\* state of Home is given the value it holds and only the toast may render it
TasksListenerError ==
    /\ listening
    /\ listening' = FALSE
    /\ isLoading' = FALSE
    /\ emitted' = NoReport
    /\ toast' = Toast("Error", "Failed to load tasks. Please try again.")
    /\ UNCHANGED <<tasks, activeTab, overviewVars, gridControls, isGridView, isFilterOpen, userSearchQuery, usersVars,
                   isReportDialogOpen, now, dialogVars, reportSearch, backendVars,
                   taskDialogVars, auth, mail, deletion>>
    /\ Renders(isLoading, isLoading)

\* a run of fetchUsers settles: setUserList(validUsers), the users whose
\* getDoc found a document; a getDoc that rejects makes it null
FetchUsersSettled ==
    \E i \in DOMAIN fetching : \E got \in SUBSET fetching[i] :
        /\ userList' = got
        /\ fetching' = RemoveAt(fetching, i)
        /\ emitted' = NoReport /\ toast' = NoToast
        /\ UNCHANGED <<pageVars, gridControls, isGridView, isFilterOpen, userSearchQuery, isReportDialogOpen, now,
                       dialogVars, reportSearch, backendVars, taskDialogVars, auth, mail>>
        /\ deletion' = DeletionRendered(deletion, filteredAndSortedTasks', currentPage, isGridView)
        /\ Renders(TRUE, FALSE)

PageIds == <<"p01", "p02", "p03", "p04", "p05", "p06", "p07", "p08", "p09",
             "p10", "p11", "p12">>

\* the documents of a collection of more than one page: the two newest are
\* completed projects, the others jobs in progress
PageDoc(i) ==
    Doc(PageIds[i], <<"a">>, <<"l", "o", "t">>,
        IF i <= 2 THEN "completed" ELSE "in-progress",
        IF i <= 2 THEN "project" ELSE "job", "medium", "u1",
        At(StartDay - i, 1), FALSE, NULL, <<>>, <<>>, None, None, "awaiting", <<>>,
        Some(At(StartDay - i, 0)),
        IF i <= 2 THEN Some(At(StartDay - i, 2)) ELSE None)

\* the lengths of the collections delivered
PageLengths == {2, ITEMS_PER_PAGE, ITEMS_PER_PAGE + 1, MaxPageTasks}

\* the onSnapshot listener delivers the newest n documents of the collection,
\* newest first
PagedSnapshot ==
    \E n \in PageLengths :
        /\ store' = [id \in {PageIds[i] : i \in 1..n} |->
                        PageDoc(CHOOSE i \in 1..n : PageIds[i] = id)]
        /\ Delivered([i \in 1..n |-> SnapshotTask(PageDoc(i))])

\* the instants that another session may have written as a date of a task
DatedInstants ==
    {At(StartDay - d, k) : d \in 1..DatedDays, k \in 0..(TicksPerDay - 1)}

\* the dates of a task: none, an initiation, or an initiation and a
\* completion that is not before it
DatedPairs ==
    {<<None, None>>} \cup {<<Some(i), None>> : i \in DatedInstants}
        \cup {<<Some(p[1]), Some(p[2])>> :
                 p \in {q \in DatedInstants \X DatedInstants : q[1] <= q[2]}}

DatedId(n) == "d" \o ToString(n)

\* the n-th document of a collection whose dates hold a time of day
DatedDoc(n, dates) ==
    Doc(DatedId(n), <<"a">>, <<"l", "o", "t">>,
        IF IsSome(dates[2]) THEN "completed"
        ELSE IF IsSome(dates[1]) THEN "in-progress" ELSE "not-initiated",
        "job", "medium", "u1", At(StartDay - DatedDays - n, 0), FALSE, NULL, <<>>,
        <<>>, None, None, "awaiting", <<>>, dates[1], dates[2])

\* the dates of the documents of such a collection, newest first; no dates
\* while the collection is another one
DatedNow ==
    IF \E n \in 0..MaxTasks : DOMAIN store = {DatedId(i) : i \in 1..n}
    THEN [i \in 1..Cardinality(DOMAIN store) |->
            <<store[DatedId(i)].dateInitiated, store[DatedId(i)].dateCompleted>>]
    ELSE <<>>

\* a write of another session: it changes the dates of a document or none,
\* adds a document or deletes the oldest one
DatedWrites(dates) ==
    {dates}
        \cup {[dates EXCEPT ![i] = p] : i \in DOMAIN dates, p \in DatedPairs}
        \cup (IF Len(dates) < MaxTasks THEN {Append(dates, p) : p \in DatedPairs} ELSE {})
        \cup (IF dates # <<>> THEN {SubSeq(dates, 1, Len(dates) - 1)} ELSE {})

\* another session writes to such a collection and the onSnapshot listener
\* delivers it, newest first
DatedSnapshot ==
    \E dates \in DatedWrites(DatedNow) :
        /\ store' = [id \in {DatedId(i) : i \in DOMAIN dates} |->
                        DatedDoc(CHOOSE i \in DOMAIN dates : DatedId(i) = id,
                                 dates[CHOOSE i \in DOMAIN dates : DatedId(i) = id])]
        /\ Delivered([i \in DOMAIN dates |-> SnapshotTask(DatedDoc(i, dates[i]))])

-----------------------------------------------------------------------------
(* lib/reports: the two renderers.  A report is described by what it       *)
(* shows: its title, its period line, its rows and its summary.            *)

getDefaultDateRange(p, date) ==
    CASE p = "daily" -> [start |-> startOfDay(date), end |-> endOfDay(date)]
      [] p = "weekly" -> [start |-> startOfWeek(date), end |-> endOfWeek(date)]
      [] p = "monthly" -> [start |-> startOfMonth(date), end |-> endOfMonth(date)]
      [] p = "quarterly" -> [start |-> startOfQuarter(date), end |-> endOfQuarter(date)]
      [] p = "yearly" -> [start |-> startOfYear(date), end |-> endOfYear(date)]

\* "Get date range" of both renderers; clock is new Date()
ReportDateRange(o, clock) ==
    IF IsSome(o.startDate) /\ IsSome(o.endDate)
    THEN Some([start |-> startOfDay(Val(o.startDate)),
               end |-> endOfDay(Val(o.endDate))])
    ELSE IF o.period = "daily" THEN Some(getDefaultDateRange("daily", clock))
    ELSE None

StatusIncluded(o, status) ==
    CASE status = "completed" -> o.includeCompleted
      [] status = "in-progress" -> o.includeInProgress
      [] status = "not-initiated" -> o.includeNotStarted

TypeIncluded(o, type) ==
    CASE type = "project" -> o.includeProjects
      [] type = "job" -> o.includeJobs

InDateRange(t, dr) == t.createdAt >= dr.start /\ t.createdAt <= dr.end

\* format(date, "PPP") shows the calendar day
FormatPPP(t) == DayOf(t)

FormatRange(dr) ==
    [text |-> "range", from |-> FormatPPP(dr.start), to |-> FormatPPP(dr.end)]

AllTime == [text |-> "All Time", from |-> 0, to |-> 0]
NoPeriodLine == [text |-> "", from |-> 0, to |-> 0]

\* a renderer filter that applies the status and type flags to a selection
\* as well; the renderers are told apart from it by a selection holding a task
\* whose flag is off
FilteredTasksFlagsFirst(ts, o, clock) ==
    SortTasks(SelectSeq(ts, LAMBDA t :
                  /\ IsSome(o.selectedTasks) => t.id \in Val(o.selectedTasks)
                  /\ StatusIncluded(o, t.status)
                  /\ TypeIncluded(o, t.type)),
              "newest")

\* generatePDFReport: "Filter tasks based on options" and "Sort tasks by date"
PdfFilteredTasks(ts, o, clock) ==
    LET dateRange == ReportDateRange(o, clock)
        picked ==
            IF IsSome(o.selectedTasks)
            THEN SelectSeq(ts, LAMBDA t : t.id \in Val(o.selectedTasks))
            ELSE LET dated == IF IsSome(dateRange)
                              THEN SelectSeq(ts, LAMBDA t : InDateRange(t, Val(dateRange)))
                              ELSE ts
                 IN SelectSeq(dated, LAMBDA t :
                        StatusIncluded(o, t.status) /\ TypeIncluded(o, t.type))
    IN SortTasks(picked, "newest")

\* generatePDFReport: the title
PdfTitle(o) ==
    IF IsSome(o.selectedTasks)
    THEN [label |-> "Custom Data Report", period |-> ""]
    ELSE [label |-> "Work Tasks Report", period |-> o.period]

\* generatePDFReport: "Add date range if available"
PdfPeriodLine(o, clock) ==
    LET dateRange == ReportDateRange(o, clock) IN
    IF IsSome(dateRange) /\ ~IsSome(o.selectedTasks)
    THEN FormatRange(Val(dateRange))
    ELSE NoPeriodLine

generatePDFReport(ts, o, clock) ==
    [title |-> PdfTitle(o),
     periodLine |-> PdfPeriodLine(o, clock),
     priceColumns |-> o.includePriceDetails,
     rows |-> PdfFilteredTasks(ts, o, clock),
     totalTasks |-> Len(PdfFilteredTasks(ts, o, clock))]

\* a count that takes a task not yet initiated for one in progress as well
StatusCountLoose(ts, status) ==
    Len(SelectSeq(ts, LAMBDA t : t.status = status
                                 \/ (status = "in-progress" /\ t.status = "not-initiated")))

\* tasks.filter(t => t.status === status).length
StatusCount(ts, status) == Len(SelectSeq(ts, LAMBDA t : t.status = status))

\* tasks.filter(t => t.type === type).length
TypeCount(ts, type) == Len(SelectSeq(ts, LAMBDA t : t.type = type))

\* the counts of a list of tasks, as page.tsx and both renderers take them
Counts(ts) ==
    [total |-> Len(ts),
     completed |-> StatusCount(ts, "completed"),
     inProgress |-> StatusCount(ts, "in-progress"),
     notStarted |-> StatusCount(ts, "not-initiated"),
     projects |-> TypeCount(ts, "project"),
     jobs |-> TypeCount(ts, "job")]

\* page.tsx: the metrics effect
Metrics(ts) == Counts(ts)

\* tasks.filter(t => t.dateCompleted && t.dateInitiated)
CompletedTasks(ts) ==
    SelectSeq(ts, LAMBDA t : IsSome(t.dateCompleted) /\ IsSome(t.dateInitiated))

\* 1000 * 60 * 60 * 24
MsPerDay == 86400000

\* the milliseconds of a tick into its day: 00:00:00.000 for the first tick,
\* 23:59:59.999 for the last, the ticks between them evenly spread
MsOfTick(k) ==
    IF k = TicksPerDay - 1 THEN MsPerDay - 1 ELSE k * (MsPerDay \div (TicksPerDay - 1))

\* Date.getTime(): days * MsPerDay + ms milliseconds, held as the whole days
\* since the epoch and the milliseconds into the day
getTime(t) == [days |-> DayOf(t), ms |-> MsOfTick(t % TicksPerDay)]

\* a number of milliseconds, days * MsPerDay + ms with 0 <= ms < MsPerDay
Milliseconds(days, ms) == [days |-> days + ms \div MsPerDay, ms |-> ms % MsPerDay]

\* calculateAverageCompletionTime: completionTime of a task,
\* dateCompleted.getTime() - dateInitiated.getTime()
completionTime(task) ==
    Milliseconds(getTime(Val(task.dateCompleted)).days - getTime(Val(task.dateInitiated)).days,
                 getTime(Val(task.dateCompleted)).ms - getTime(Val(task.dateInitiated)).ms)

\* the milliseconds from initiation to completion of all the tasks of a list
RECURSIVE SumOfCompletionTimes(_)
SumOfCompletionTimes(ts) ==
    IF ts = <<>> THEN Milliseconds(0, 0)
    ELSE Milliseconds(completionTime(Head(ts)).days + SumOfCompletionTimes(Tail(ts)).days,
                      completionTime(Head(ts)).ms + SumOfCompletionTimes(Tail(ts)).ms)

\* what is left of a sum of milliseconds over the whole days of its n-th part
RestOfMean(sum, n) == (sum.days % n) * MsPerDay + sum.ms

\* the n-th part of a sum of milliseconds, in days, lies midway between two
\* integers
IsMidway(sum, n) == RestOfMean(sum, n) = n * MsPerDay - RestOfMean(sum, n)

\* the integer nearest to the n-th part of a sum of milliseconds, in days,
\* the upper one of two
NearestDays(sum, n) ==
    sum.days \div n + (IF RestOfMean(sum, n) >= n * MsPerDay - RestOfMean(sum, n) THEN 1 ELSE 0)

\* The numbers of JavaScript are IEEE 754 doubles: 53 significant bits, the
\* result of a division or an addition rounded to the nearest double, to the
\* one with an even last bit of two.  The magnitude of a double is held as
\* NumLimbs digits to the base LimbBase, the least significant first, the
\* lowest FracLimbs of them behind the binary point: every double that the
\* average of completion times of less than LimbBase^2 days forms is such a
\* number.
LimbBits == 12
LimbBase == 2^LimbBits
FracLimbs == 7
NumLimbs == 9

ZeroLimbs == [i \in 1..NumLimbs |-> 0]
PlusZero == [neg |-> FALSE, mag |-> ZeroLimbs]

RECURSIVE AddLimbs(_, _, _)
AddLimbs(a, b, carry) ==
    IF a = <<>> THEN <<>>
    ELSE <<(Head(a) + Head(b) + carry) % LimbBase>>
            \o AddLimbs(Tail(a), Tail(b), (Head(a) + Head(b) + carry) \div LimbBase)

\* a - b for a >= b
RECURSIVE SubLimbs(_, _, _)
SubLimbs(a, b, borrow) ==
    IF a = <<>> THEN <<>>
    ELSE <<(Head(a) - Head(b) - borrow) % LimbBase>>
            \o SubLimbs(Tail(a), Tail(b), IF Head(a) - Head(b) - borrow < 0 THEN 1 ELSE 0)

LessLimbs(a, b) ==
    \E i \in 1..NumLimbs : a[i] < b[i] /\ \A j \in (i + 1)..NumLimbs : a[j] = b[j]

\* the place of the leading bit of a magnitude other than zero, the lowest
\* place being 0
LeadingBit(mag) ==
    LET top == CHOOSE i \in 1..NumLimbs : mag[i] # 0 /\ \A j \in (i + 1)..NumLimbs : mag[j] = 0
    IN  LimbBits * (top - 1)
            + (CHOOSE b \in 0..(LimbBits - 1) : 2^b <= mag[top] /\ mag[top] < 2^(b + 1))

BitAt(mag, place) == (mag[place \div LimbBits + 1] \div 2^(place % LimbBits)) % 2

\* some bit below a place is set
AnyBelow(mag, place) ==
    \/ mag[place \div LimbBits + 1] % 2^(place % LimbBits) # 0
    \/ \E i \in 1..(place \div LimbBits) : mag[i] # 0

\* the bits below a place cleared
ClearedBelow(mag, place) ==
    [i \in 1..NumLimbs |->
        IF i < place \div LimbBits + 1 THEN 0
        ELSE IF i = place \div LimbBits + 1
             THEN mag[i] - (mag[i] % 2^(place % LimbBits))
             ELSE mag[i]]

UnitAt(place) ==
    [i \in 1..NumLimbs |-> IF i = place \div LimbBits + 1 THEN 2^(place % LimbBits) ELSE 0]

\* a magnitude, with something left below its lowest place or not (inexact),
\* rounded to 53 significant bits
RoundToDouble(mag, inexact) ==
    IF mag = ZeroLimbs \/ LeadingBit(mag) < 53 THEN mag
    ELSE LET last == LeadingBit(mag) - 52 IN
         IF BitAt(mag, last - 1) = 1
            /\ (inexact \/ AnyBelow(mag, last - 1) \/ BitAt(mag, last) = 1)
         THEN AddLimbs(ClearedBelow(mag, last), UnitAt(last), 0)
         ELSE ClearedBelow(mag, last)

\* the digits behind the binary point of r / MsPerDay for 0 <= r < MsPerDay,
\* a digit being three times four bits, and what is left of r below them
NextLimb(r) ==
    ((16 * r) \div MsPerDay) * 256
        + ((16 * ((16 * r) % MsPerDay)) \div MsPerDay) * 16
        + (16 * ((16 * ((16 * r) % MsPerDay)) % MsPerDay)) \div MsPerDay

RestAfterLimb(r) == (16 * ((16 * ((16 * r) % MsPerDay)) % MsPerDay)) % MsPerDay

RECURSIVE FractionLimbs(_, _)
FractionLimbs(r, n) ==
    IF n = 0 THEN <<>> ELSE Append(FractionLimbs(RestAfterLimb(r), n - 1), NextLimb(r))

RECURSIVE RestAfterLimbs(_, _)
RestAfterLimbs(r, n) == IF n = 0 THEN r ELSE RestAfterLimbs(RestAfterLimb(r), n - 1)

\* the magnitude of a number of milliseconds
Magnitude(time) ==
    IF time.days >= 0 THEN time
    ELSE IF time.ms = 0 THEN [days |-> -time.days, ms |-> 0]
    ELSE [days |-> -time.days - 1, ms |-> MsPerDay - time.ms]

\* completionTime / (1000 * 60 * 60 * 24)
DaysOf(time) ==
    [neg |-> time.days < 0,
     mag |-> RoundToDouble(FractionLimbs(Magnitude(time).ms, FracLimbs)
                              \o <<Magnitude(time).days % LimbBase,
                                   Magnitude(time).days \div LimbBase>>,
                           RestAfterLimbs(Magnitude(time).ms, FracLimbs) # 0)]

\* sum + days: the sum of two doubles is a number of the same digits
PlusDouble(x, y) ==
    IF x.neg = y.neg
    THEN [neg |-> x.neg, mag |-> RoundToDouble(AddLimbs(x.mag, y.mag, 0), FALSE)]
    ELSE IF LessLimbs(x.mag, y.mag)
         THEN [neg |-> y.neg, mag |-> RoundToDouble(SubLimbs(y.mag, x.mag, 0), FALSE)]
         ELSE [neg |-> x.neg, mag |-> RoundToDouble(SubLimbs(x.mag, y.mag, 0), FALSE)]

\* the reduce of calculateAverageCompletionTime: totalDays, the tasks taken
\* in the order of the list
RECURSIVE totalDays(_)
totalDays(ts) ==
    IF ts = <<>> THEN PlusZero
    ELSE PlusDouble(totalDays(SubSeq(ts, 1, Len(ts) - 1)), DaysOf(completionTime(ts[Len(ts)])))

\* the digits of mag / n, the most significant first, for a small integer n
RECURSIVE QuotientLimbs(_, _, _, _)
QuotientLimbs(mag, n, i, rest) ==
    IF i = 0 THEN <<>>
    ELSE Append(QuotientLimbs(mag, n, i - 1, (rest * LimbBase + mag[i]) % n),
                (rest * LimbBase + mag[i]) \div n)

RECURSIVE RestOfQuotient(_, _, _, _)
RestOfQuotient(mag, n, i, rest) ==
    IF i = 0 THEN rest ELSE RestOfQuotient(mag, n, i - 1, (rest * LimbBase + mag[i]) % n)

\* totalDays / completedTasks.length
DividedBy(x, n) ==
    [neg |-> x.neg,
     mag |-> RoundToDouble(QuotientLimbs(x.mag, n, NumLimbs, 0),
                           RestOfQuotient(x.mag, n, NumLimbs, 0) # 0)]

\* Math.round: the nearest integer, the upper one of two
MathRound(x) ==
    LET whole == x.mag[FracLimbs + 1] + LimbBase * x.mag[FracLimbs + 2]
        half == BitAt(x.mag, LimbBits * FracLimbs - 1) = 1
    IN  IF x.neg
        THEN IF half /\ AnyBelow(x.mag, LimbBits * FracLimbs - 1) THEN -(whole + 1) ELSE -whole
        ELSE IF half THEN whole + 1 ELSE whole

\* an average over all the tasks of the list
AverageOverAllTasks(ts) ==
    IF Len(CompletedTasks(ts)) = 0 THEN 0
    ELSE NearestDays(SumOfCompletionTimes(CompletedTasks(ts)), Len(ts))

\* calculateAverageCompletionTime.  The doubles of the code are followed
\* where they decide the result, which is where the mean lies midway between
\* two integers: any other mean of up to 16 completion times of less than
\* LimbBase days each is more than 2^-32 away from such a point, totalDays /
\* completedTasks.length is less than 2^-37 away from the mean, and
\* Math.round gives the integer nearest to the mean.
calculateAverageCompletionTime(ts) ==
    IF Len(CompletedTasks(ts)) = 0 THEN 0
    ELSE IF IsMidway(SumOfCompletionTimes(CompletedTasks(ts)), Len(CompletedTasks(ts)))
         THEN MathRound(DividedBy(totalDays(CompletedTasks(ts)), Len(CompletedTasks(ts))))
         ELSE NearestDays(SumOfCompletionTimes(CompletedTasks(ts)), Len(CompletedTasks(ts)))

\* generatePDFReport: the summary under the table
PdfSummary(ts, o, clock) == Counts(PdfFilteredTasks(ts, o, clock))

\* a workbook filter that lists the oldest task first
ExcelFilteredTasksOldestFirst(ts, o, clock) ==
    SortTasks(PdfFilteredTasks(ts, o, clock), "oldest")

\* generateExcelReport: "Filter tasks based on options" and "Sort tasks by date"
ExcelFilteredTasks(ts, o, clock) ==
    LET dateRange == ReportDateRange(o, clock)
        picked ==
            IF IsSome(o.selectedTasks)
            THEN SelectSeq(ts, LAMBDA t : t.id \in Val(o.selectedTasks))
            ELSE LET dated == IF IsSome(dateRange)
                              THEN SelectSeq(ts, LAMBDA t : InDateRange(t, Val(dateRange)))
                              ELSE ts
                 IN SelectSeq(dated, LAMBDA t :
                        StatusIncluded(o, t.status) /\ TypeIncluded(o, t.type))
    IN SortTasks(picked, "newest")

\* generateExcelReport: the counts of summaryData
ExcelSummary(ts, o, clock) == Counts(ExcelFilteredTasks(ts, o, clock))

\* generateExcelReport: the "Period" row of summaryData
ExcelPeriodRow(o, clock) ==
    LET dateRange == ReportDateRange(o, clock) IN
    IF IsSome(dateRange) THEN FormatRange(Val(dateRange)) ELSE AllTime

\* generateExcelReport: the labels the workbook carries (sheet names and the
\* heading of the summary sheet)
ExcelLabels(o) == {"Tasks", "Summary", "Report Summary"}

generateExcelReport(ts, o, clock) ==
    [labels |-> ExcelLabels(o),
     periodRow |-> ExcelPeriodRow(o, clock),
     priceColumns |-> o.includePriceDetails,
     rows |-> ExcelFilteredTasks(ts, o, clock),
     totalTasks |-> Len(ExcelFilteredTasks(ts, o, clock))]

\* tasks.filter(t => t.priority === priority).length
PriorityCount(ts, priority) == Len(SelectSeq(ts, LAMBDA t : t.priority = priority))

\* tasks.filter(t => t.workConfirmationStatus === wcs).length
ConfirmationCount(ts, wcs) ==
    Len(SelectSeq(ts, LAMBDA t : t.workConfirmationStatus = wcs))

\* tasks.filter(t => t.poNumber).length: a poNumber that is a non-empty string
WithPO(ts) == Len(SelectSeq(ts, LAMBDA t : t.poNumber # <<>> /\ t.poNumber # NULL))

\* reduce((sum, task) => sum + (task.quotedPrice || 0), 0)
RECURSIVE TotalQuoted(_)
TotalQuoted(ts) ==
    IF ts = <<>> THEN 0 ELSE OrZero(Head(ts).quotedPrice) + TotalQuoted(Tail(ts))

\* reduce((sum, task) => sum + (task.confirmedPrice || 0), 0)
RECURSIVE TotalConfirmed(_)
TotalConfirmed(ts) ==
    IF ts = <<>> THEN 0 ELSE OrZero(Head(ts).confirmedPrice) + TotalConfirmed(Tail(ts))

\* generatePDFReport: every number of the summary under the table; the price
\* totals are there when options.includePriceDetails is set
PdfAggregates(ts, o, clock) ==
    [totalTasks |-> Len(PdfFilteredTasks(ts, o, clock)),
     completed |-> StatusCount(PdfFilteredTasks(ts, o, clock), "completed"),
     inProgress |-> StatusCount(PdfFilteredTasks(ts, o, clock), "in-progress"),
     notStarted |-> StatusCount(PdfFilteredTasks(ts, o, clock), "not-initiated"),
     projects |-> TypeCount(PdfFilteredTasks(ts, o, clock), "project"),
     jobs |-> TypeCount(PdfFilteredTasks(ts, o, clock), "job"),
     urgent |-> PriorityCount(PdfFilteredTasks(ts, o, clock), "urgent"),
     high |-> PriorityCount(PdfFilteredTasks(ts, o, clock), "high"),
     medium |-> PriorityCount(PdfFilteredTasks(ts, o, clock), "medium"),
     low |-> PriorityCount(PdfFilteredTasks(ts, o, clock), "low"),
     confirmedWork |-> ConfirmationCount(PdfFilteredTasks(ts, o, clock), "confirmed"),
     awaitingConfirmation |-> ConfirmationCount(PdfFilteredTasks(ts, o, clock), "awaiting"),
     withPO |-> WithPO(PdfFilteredTasks(ts, o, clock)),
     totalQuoted |-> IF o.includePriceDetails
                     THEN Some(TotalQuoted(PdfFilteredTasks(ts, o, clock))) ELSE None,
     totalConfirmed |-> IF o.includePriceDetails
                        THEN Some(TotalConfirmed(PdfFilteredTasks(ts, o, clock))) ELSE None]

\* generateExcelReport: every number of summaryData; the "Price Summary" rows
\* are pushed when options.includePriceDetails is set
ExcelAggregates(ts, o, clock) ==
    [totalTasks |-> Len(ExcelFilteredTasks(ts, o, clock)),
     completed |-> StatusCount(ExcelFilteredTasks(ts, o, clock), "completed"),
     inProgress |-> StatusCount(ExcelFilteredTasks(ts, o, clock), "in-progress"),
     notStarted |-> StatusCount(ExcelFilteredTasks(ts, o, clock), "not-initiated"),
     projects |-> TypeCount(ExcelFilteredTasks(ts, o, clock), "project"),
     jobs |-> TypeCount(ExcelFilteredTasks(ts, o, clock), "job"),
     urgent |-> PriorityCount(ExcelFilteredTasks(ts, o, clock), "urgent"),
     high |-> PriorityCount(ExcelFilteredTasks(ts, o, clock), "high"),
     medium |-> PriorityCount(ExcelFilteredTasks(ts, o, clock), "medium"),
     low |-> PriorityCount(ExcelFilteredTasks(ts, o, clock), "low"),
     confirmedWork |-> ConfirmationCount(ExcelFilteredTasks(ts, o, clock), "confirmed"),
     awaitingConfirmation |-> ConfirmationCount(ExcelFilteredTasks(ts, o, clock), "awaiting"),
     withPO |-> WithPO(ExcelFilteredTasks(ts, o, clock)),
     totalQuoted |-> IF o.includePriceDetails
                     THEN Some(TotalQuoted(ExcelFilteredTasks(ts, o, clock))) ELSE None,
     totalConfirmed |-> IF o.includePriceDetails
                        THEN Some(TotalConfirmed(ExcelFilteredTasks(ts, o, clock))) ELSE None]

\* Arrays are objects: a variable refers to the caller's array ("input") or to
\* an array made by a spread or by filter() ("fresh"), and Array.prototype.sort
\* sorts the array it is called on in place.

\* a grid whose result starts as the tasks prop itself: without a search text
\* and without a filter the sort is called on the prop
GridResultRefAliased(q, f) ==
    IF q = <<>> /\ f = initialFilters THEN "input" ELSE "fresh"

\* TaskGrid.filteredAndSortedTasks: let result = [...tasks], and every filter
\* assigns the array filter() returns
GridResultRef(q, f) == "fresh"

\* generatePDFReport: filteredTasks at the sort. It starts as tasks; the
\* selection branch assigns tasks.filter(...), the other branch assigns a
\* filter() under a date range and always assigns the status and type filter()
PdfFilteredRef(o, clock) ==
    IF IsSome(o.selectedTasks) THEN "fresh"
    ELSE LET dated == IF IsSome(ReportDateRange(o, clock)) THEN "fresh" ELSE "input"
         IN "fresh"

\* generateExcelReport: filteredTasks at the sort, as in generatePDFReport
ExcelFilteredRef(o, clock) ==
    IF IsSome(o.selectedTasks) THEN "fresh"
    ELSE LET dated == IF IsSome(ReportDateRange(o, clock)) THEN "fresh" ELSE "input"
         IN "fresh"

\* the caller's array after a sort by mode was called through the reference
InputAfterSort(ts, ref, mode) ==
    IF ref = "input" THEN SortTasks(ts, mode) ELSE ts

\* the tasks prop after TaskGrid computed filteredAndSortedTasks
GridInputAfter(ts, q, mode, f) == InputAfterSort(ts, GridResultRef(q, f), mode)

\* the tasks argument after generatePDFReport returned
PdfInputAfter(ts, o, clock) == InputAfterSort(ts, PdfFilteredRef(o, clock), "newest")

\* the tasks argument after generateExcelReport returned
ExcelInputAfter(ts, o, clock) == InputAfterSort(ts, ExcelFilteredRef(o, clock), "newest")

-----------------------------------------------------------------------------
(* ReportDialog *)

Periods == {"daily", "weekly", "monthly", "quarterly", "yearly", "custom",
            "selection"}
NamedPeriods == {"weekly", "monthly", "quarterly", "yearly"}
IncludeFlags == {"completed", "inProgress", "notStarted", "projects", "jobs"}
ReportTypes == {"pdf", "excel", "email"}

\* the days a calendar of the dialog shows, each as the Date of its midnight
CalendarDates ==
    {At(d, 0) : d \in (StartDay - WindowBack)..(StartDay + MaxDayAdvance + 1)}

ClockTicks ==
    {At(d, k) : d \in StartDay..(StartDay + MaxDayAdvance), k \in 0..(TicksPerDay - 1)}

ReportSearches == {<<>>, <<"L", "a">>}

DialogInit ==
    /\ period = "daily"
    /\ selectedDate = None
    /\ startDate = None
    /\ endDate = None
    /\ include = [f \in IncludeFlags |-> TRUE]
    /\ selectedTasks = {}
    /\ isEmailDialogOpen = FALSE
    /\ reportSearch = <<>>

\* a step of the report dialog leaves the grid controls and the task dialog
\* alone; the dialog renders when rendered holds
DialogFrame(rendered) ==
    /\ UNCHANGED <<pageVars, gridControls, isGridView, isFilterOpen, userSearchQuery, usersVars, isReportDialogOpen,
                   now, backendVars, taskDialogVars, auth, mail, deletion>>
    /\ Renders(rendered, FALSE)

\* the report dialog is open; the email dialog is modal: while it is open the
\* report dialog takes no input
DialogUsable == isReportDialogOpen /\ ~isEmailDialogOpen

\* onValueChange of the period Select: another period is chosen
handlePeriodChange ==
    \E value \in Periods :
        /\ DialogUsable
        /\ value # period
        /\ period' = value
        /\ selectedDate' = None
        /\ startDate' = None
        /\ endDate' = None
        /\ selectedTasks' = {}
        /\ emitted' = NoReport /\ toast' = NoToast
        /\ UNCHANGED <<include, isEmailDialogOpen, reportSearch>>
        /\ DialogFrame(TRUE)

\* disabled={(date) => isAfter(date, today)} of the period and start calendars
CalendarDisabled(date) == isAfter(date, today)

\* an end calendar that disables the days after today only; the end calendar
\* of the dialog is told apart from it by a day before the start date
EndCalendarOnlyFuture(date) == isAfter(date, today)

\* disabled of the end calendar
EndCalendarDisabled(date) ==
    (IF IsSome(startDate) THEN date < Val(startDate) ELSE FALSE)
    \/ isAfter(date, today)

\* a click on a day of a single-selection calendar: the selected day is
\* deselected (undefined), any other day is selected
Clicked(date, selected) == IF selected = Some(date) THEN None ELSE Some(date)

\* a resolution that keeps the calendar end of the period; the resolution of
\* the dialog is told apart from it by a period that reaches past today
UnclampedRange(p, date) == getDefaultDateRange(p, date)

\* handleDateSelect: the range it resolves for a named period, clamped
ResolvedRange(p, date) ==
    LET r == getDefaultDateRange(p, date) IN
    [start |-> r.start, end |-> IF isAfter(r.end, today) THEN today ELSE r.end]

\* the check the three date handlers start with
BeyondToday(date) == IsSome(date) /\ isAfter(Val(date), today)

\* the toast of that check
DateToast(date) ==
    IF BeyondToday(date)
    THEN Toast("Invalid Date", "Cannot select dates beyond today")
    ELSE NoToast

handleDateSelect(date) ==
    /\ toast' = DateToast(date)
    /\ IF BeyondToday(date)
       THEN UNCHANGED <<selectedDate, startDate, endDate>>
       ELSE /\ selectedDate' = date
            /\ IF IsSome(date) /\ period \in NamedPeriods
               THEN /\ startDate' = Some(ResolvedRange(period, Val(date)).start)
                    /\ endDate' = Some(ResolvedRange(period, Val(date)).end)
               ELSE UNCHANGED <<startDate, endDate>>

handleStartDateSelect(date) ==
    /\ toast' = DateToast(date)
    /\ IF BeyondToday(date)
       THEN UNCHANGED <<startDate, endDate>>
       ELSE /\ startDate' = date
            /\ IF IsSome(date) /\ IsSome(endDate) /\ isAfter(Val(date), Val(endDate))
               THEN endDate' = None
               ELSE UNCHANGED endDate

handleEndDateSelect(date) ==
    /\ toast' = DateToast(date)
    /\ IF BeyondToday(date)
       THEN UNCHANGED <<startDate, endDate>>
       ELSE /\ endDate' = date
            /\ UNCHANGED startDate

\* the calendar of a named period
DateSelect ==
    \E d \in CalendarDates :
        /\ DialogUsable
        /\ period \in NamedPeriods
        /\ ~CalendarDisabled(d)
        /\ handleDateSelect(Clicked(d, selectedDate))
        /\ emitted' = NoReport
        /\ UNCHANGED <<period, include, selectedTasks, isEmailDialogOpen, reportSearch>>
        /\ DialogFrame(TRUE)

\* the start calendar of a custom range
StartDateSelect ==
    \E d \in CalendarDates :
        /\ DialogUsable
        /\ period = "custom"
        /\ ~CalendarDisabled(d)
        /\ handleStartDateSelect(Clicked(d, startDate))
        /\ emitted' = NoReport
        /\ UNCHANGED <<period, selectedDate, include, selectedTasks, isEmailDialogOpen,
                       reportSearch>>
        /\ DialogFrame(TRUE)

\* the end calendar of a custom range
EndDateSelect ==
    \E d \in CalendarDates :
        /\ DialogUsable
        /\ period = "custom"
        /\ ~EndCalendarDisabled(d)
        /\ handleEndDateSelect(Clicked(d, endDate))
        /\ emitted' = NoReport
        /\ UNCHANGED <<period, selectedDate, include, selectedTasks, isEmailDialogOpen,
                       reportSearch>>
        /\ DialogFrame(TRUE)

Excluded(inc) == Cardinality({f \in IncludeFlags : ~inc[f]})

\* the "Include Status" and "Include Types" checkboxes
ToggleInclude ==
    \E f \in IncludeFlags :
        /\ DialogUsable
        /\ period # "selection"
        /\ include[f] => Excluded(include) < MaxExcluded
        /\ include' = [include EXCEPT ![f] = ~include[f]]
        /\ emitted' = NoReport /\ toast' = NoToast
        /\ UNCHANGED <<period, selectedDate, startDate, endDate, selectedTasks,
                       isEmailDialogOpen, reportSearch>>
        /\ DialogFrame(TRUE)

\* the tasks listed in renderTaskSelection: those the "Search tasks..." input
\* lets through
SelectableTasks(ts, q) ==
    IF q = <<>> THEN ts
    ELSE SelectSeq(ts, LAMBDA t :
            \/ Includes(ToLower(t.title), ToLower(q))
            \/ Includes(ToLower(t.site), ToLower(q))
            \/ Includes(ToLower(t.description), ToLower(q)))

\* onChange of the "Search tasks..." input: the text has changed
SetReportSearch ==
    \E q \in ReportSearches :
        /\ DialogUsable
        /\ period = "selection"
        /\ q # reportSearch
        /\ reportSearch' = q
        /\ emitted' = NoReport /\ toast' = NoToast
        /\ UNCHANGED dialogVars
        /\ DialogFrame(TRUE)

\* the checkbox of a task in renderTaskSelection
ToggleTask ==
    \E i \in DOMAIN SelectableTasks(tasks, reportSearch) :
        LET id == SelectableTasks(tasks, reportSearch)[i].id
            checked == id \notin selectedTasks IN
        /\ DialogUsable
        /\ period = "selection"
        /\ checked => Cardinality(selectedTasks) < MaxSelected
        /\ selectedTasks' = ToggleValue(selectedTasks, id, checked)
        /\ emitted' = NoReport /\ toast' = NoToast
        /\ UNCHANGED <<period, selectedDate, startDate, endDate, include,
                       isEmailDialogOpen, reportSearch>>
        /\ DialogFrame(TRUE)

\* the Clear button of renderTaskSelection, disabled without a selection
ClearSelection ==
    /\ DialogUsable
    /\ period = "selection"
    /\ selectedTasks # {}
    /\ selectedTasks' = {}
    /\ emitted' = NoReport /\ toast' = NoToast
    /\ UNCHANGED <<period, selectedDate, startDate, endDate, include,
                   isEmailDialogOpen, reportSearch>>
    /\ DialogFrame(TRUE)

\* the Select All button of renderTaskSelection, disabled when no task is
\* listed: setSelectedTasks(filteredTasks.map(t => t.id))
SelectAll ==
    /\ DialogUsable
    /\ period = "selection"
    /\ Len(SelectableTasks(tasks, reportSearch)) > 0
    /\ selectedTasks' = {SelectableTasks(tasks, reportSearch)[i].id :
                            i \in DOMAIN SelectableTasks(tasks, reportSearch)}
    /\ emitted' = NoReport /\ toast' = NoToast
    /\ UNCHANGED <<period, selectedDate, startDate, endDate, include,
                   isEmailDialogOpen, reportSearch>>
    /\ DialogFrame(TRUE)

isGenerateDisabled ==
    IF period = "daily" THEN FALSE
    ELSE IF period = "selection" THEN selectedTasks = {}
    ELSE ~IsSome(startDate) \/ ~IsSome(endDate)

\* handleGenerateReport: the options object
ReportOptions(includePrices) ==
    [period |-> IF period \in {"custom", "selection"} THEN "daily" ELSE period,
     startDate |-> IF period = "daily" THEN None ELSE startDate,
     endDate |-> IF period = "daily" THEN None ELSE endDate,
     includeCompleted |-> include["completed"],
     includeInProgress |-> include["inProgress"],
     includeNotStarted |-> include["notStarted"],
     includeProjects |-> include["projects"],
     includeJobs |-> include["jobs"],
     includePriceDetails |-> includePrices,
     selectedTasks |-> IF period = "selection" THEN Some(selectedTasks) ELSE None]

\* handleGenerateReport: the tasks handed to the renderers
ReportInput ==
    IF period = "selection"
    THEN SelectSeq(tasks, LAMBDA t : t.id \in selectedTasks)
    ELSE tasks

\* handleGenerateReport: the toast of a selection report without a selection
GenerateToast ==
    IF period = "selection" /\ selectedTasks = {}
    THEN Toast("Error", "Please select at least one task")
    ELSE NoToast

\* the call without the check of the selection
GeneratedReportUnchecked(type, includePrices) ==
    [kind |-> type,
     options |-> ReportOptions(includePrices),
     pdf |-> IF type \in {"pdf", "email"}
             THEN Some(generatePDFReport(ReportInput, ReportOptions(includePrices), now))
             ELSE None,
     excel |-> IF type \in {"excel", "email"}
               THEN Some(generateExcelReport(ReportInput, ReportOptions(includePrices), now))
               ELSE None]

\* handleGenerateReport: what the call hands out
GeneratedReport(type, includePrices) ==
    IF period = "selection" /\ selectedTasks = {} THEN NoReport
    ELSE [kind |-> type,
          options |-> ReportOptions(includePrices),
          pdf |-> IF type \in {"pdf", "email"}
                  THEN Some(generatePDFReport(ReportInput, ReportOptions(includePrices), now))
                  ELSE None,
          excel |-> IF type \in {"excel", "email"}
                    THEN Some(generateExcelReport(ReportInput, ReportOptions(includePrices), now))
                    ELSE None]

\* handleGenerateReport: setIsEmailDialogOpen(true) on the email path
EmailDialogAfter(type, includePrices) ==
    IF type = "email" /\ GeneratedReport(type, includePrices) # NoReport
    THEN TRUE ELSE isEmailDialogOpen

\* the six generate buttons, disabled={isGenerateDisabled()}; a download
\* changes no state, the email path sets the data and opens the email dialog
handleGenerateReport ==
    \E type \in ReportTypes, includePrices \in BOOLEAN :
        /\ DialogUsable
        /\ ~isGenerateDisabled
        /\ emitted' = GeneratedReport(type, includePrices)
        /\ toast' = GenerateToast
        /\ isEmailDialogOpen' = EmailDialogAfter(type, includePrices)
        /\ UNCHANGED <<period, selectedDate, startDate, endDate, include, selectedTasks,
                       reportSearch>>
        /\ DialogFrame(isEmailDialogOpen')

\* EmailReportDialog onOpenChange(false)
CloseEmailDialog ==
    /\ isEmailDialogOpen
    /\ isEmailDialogOpen' = FALSE
    /\ emitted' = NoReport /\ toast' = NoToast
    /\ UNCHANGED <<period, selectedDate, startDate, endDate, include, selectedTasks,
                   reportSearch>>
    /\ DialogFrame(TRUE)

-----------------------------------------------------------------------------
(* EmailReportDialog and lib/email sendReportEmail *)

EmailInputs == {<<>>, <<"a", "@", "b">>}

\* how the fetch of sendReportEmail ends: a response that is ok, a response
\* that is not ok, a rejected fetch, an ok response whose body is not JSON
SendOutcomes == {"ok", "not ok", "rejected", "not json"}

\* useState of EmailReportDialog; requests are the POSTs issued so far, sends
\* the runs of handleSend that passed its checks, response how the last fetch
\* ended, orphans the fetches in flight of dialogs that are no longer mounted
MailInit ==
    [email |-> <<>>, sendPdf |-> TRUE, sendExcel |-> TRUE, isSending |-> FALSE,
     sends |-> 0, requests |-> <<>>, response |-> None, orphans |-> 0]

\* handleSend: the two checks
SendRejected(m) == m.email = <<>> \/ (~m.sendPdf /\ ~m.sendExcel)

\* handleSend: the toast of the check that fails
SendValidationToast(m) ==
    IF m.email = <<>> THEN Toast("Error", "Please enter an email address")
    ELSE Toast("Error", "Please select at least one file format")

\* handleSend: attachments; the dialog is opened after setEmailDialogData gave
\* it both buffers
Attachments(m) ==
    (IF m.sendPdf THEN <<"pdf">> ELSE <<>>) \o (IF m.sendExcel THEN <<"xlsx">> ELSE <<>>)

\* sendReportEmail: the fetch
PostRequest(m) ==
    [url |-> "/api/email", method |-> "POST", to |-> m.email,
     attachments |-> Attachments(m)]

\* sendReportEmail returns for an ok response with a JSON body and throws
\* otherwise
SendFailed(outcome) == outcome # "ok"

\* a dialog that sends the report again when sending failed
MailAfterSettleRetrying(m, outcome) ==
    IF SendFailed(outcome)
    THEN [m EXCEPT !.isSending = FALSE, !.response = Some(outcome),
                   !.requests = Append(@, PostRequest(m))]
    ELSE [m EXCEPT !.isSending = FALSE, !.response = Some(outcome)]

\* handleSend after the await: finally setIsSending(false)
MailAfterSettle(m, outcome) ==
    [m EXCEPT !.isSending = FALSE, !.response = Some(outcome)]

\* handleSend after the await: the toast of the try or of the catch
SendToast(outcome) ==
    IF SendFailed(outcome)
    THEN Toast("Error", "Failed to send report. Please try again.")
    ELSE Toast("Success", "Report sent successfully")

\* the email dialog is taken off the page with TaskGrid: its state is gone, a
\* fetch in flight goes on
MailUnmounted(m) ==
    [m EXCEPT !.email = <<>>, !.sendPdf = TRUE, !.sendExcel = TRUE,
              !.isSending = FALSE,
              !.orphans = IF m.isSending THEN @ + 1 ELSE @]

\* a step of the email dialog renders that dialog; ReportDialog renders when
\* its isEmailDialogOpen changes
MailFrame ==
    /\ emitted' = NoReport
    /\ UNCHANGED <<period, selectedDate, startDate, endDate, include, selectedTasks,
                   reportSearch>>
    /\ UNCHANGED <<pageVars, gridControls, isGridView, isFilterOpen, userSearchQuery, usersVars, isReportDialogOpen,
                   now, backendVars, taskDialogVars, auth, deletion>>
    /\ Renders(isEmailDialogOpen' # isEmailDialogOpen, FALSE)

\* the Email Address input
SetEmail ==
    \E v \in EmailInputs :
        /\ isEmailDialogOpen
        /\ v # mail.email
        /\ mail' = [mail EXCEPT !.email = v]
        /\ toast' = NoToast
        /\ UNCHANGED isEmailDialogOpen
        /\ MailFrame

\* the PDF Format and Excel Format checkboxes
SetSendFormat ==
    \E format \in {"sendPdf", "sendExcel"}, checked \in BOOLEAN :
        /\ isEmailDialogOpen
        /\ checked # mail[format]
        /\ mail' = [mail EXCEPT ![format] = checked]
        /\ toast' = NoToast
        /\ UNCHANGED isEmailDialogOpen
        /\ MailFrame

\* the Send Report button, disabled={isSending || (!sendPdf && !sendExcel)}:
\* handleSend up to its await, the fetch of sendReportEmail issued
handleSend ==
    /\ isEmailDialogOpen
    /\ ~mail.isSending
    /\ mail.sendPdf \/ mail.sendExcel
    /\ mail.sends < MaxSends
    /\ IF SendRejected(mail)
       THEN /\ toast' = SendValidationToast(mail)
            /\ UNCHANGED mail
       ELSE /\ mail' = [mail EXCEPT !.isSending = TRUE, !.sends = @ + 1,
                                     !.response = None,
                                     !.requests = Append(@, PostRequest(mail))]
            /\ toast' = NoToast
    /\ UNCHANGED isEmailDialogOpen
    /\ MailFrame

\* the fetch settles: handleSend from its await to its end
SendSettled ==
    \E outcome \in SendOutcomes :
        /\ mail.isSending
        /\ mail' = MailAfterSettle(mail, outcome)
        /\ toast' = SendToast(outcome)
        /\ isEmailDialogOpen' = IF SendFailed(outcome) THEN isEmailDialogOpen ELSE FALSE
        /\ MailFrame

\* the fetch of a dialog that is no longer mounted settles: the toast is
\* shown, the state setters find no component
OrphanSendSettled ==
    \E outcome \in SendOutcomes :
        /\ mail.orphans > 0
        /\ mail' = [mail EXCEPT !.orphans = @ - 1]
        /\ toast' = SendToast(outcome)
        /\ UNCHANGED isEmailDialogOpen
        /\ MailFrame

\* time passes
Tick ==
    \E t \in ClockTicks :
        /\ t > now
        /\ now' = t
        /\ emitted' = NoReport /\ toast' = NoToast
        /\ UNCHANGED <<pageVars, gridControls, isGridView, isFilterOpen, userSearchQuery, usersVars, isReportDialogOpen,
                       dialogVars, reportSearch, today, backendVars, taskDialogVars,
                       formToday, auth, mail, deletion>>

-----------------------------------------------------------------------------
(* page.tsx: the tabs *)

Tabs == {"overview", "tasks"}

\* TaskGrid and everything below it is taken off the page: the state of the
\* components is lost, and a TaskGrid mounted later starts from its initial
\* state
GridUnmounted ==
    /\ filters' = initialFilters
    /\ searchQuery' = <<>>
    /\ sortBy' = "priority-high"
    /\ currentPage' = 1
    /\ isGridView' = FALSE
    /\ isFilterOpen' = FALSE
    /\ userSearchQuery' = <<>>
    /\ isReportDialogOpen' = FALSE
    /\ userList' = {}
    /\ period' = "daily"
    /\ selectedDate' = None
    /\ startDate' = None
    /\ endDate' = None
    /\ include' = [f \in IncludeFlags |-> TRUE]
    /\ selectedTasks' = {}
    /\ isEmailDialogOpen' = FALSE
    /\ reportSearch' = <<>>
    /\ mail' = MailUnmounted(mail)
    /\ deletion' = [deletion EXCEPT !.taskToDelete = None, !.showDeleteConfirm = FALSE]

\* onValueChange of the Tabs: the other tab is chosen.  Radix Tabs renders
\* the content of the active tab only: leaving "tasks" takes TaskGrid and
\* everything below it off the page, entering it mounts a new TaskGrid, whose
\* effect on tasks runs fetchUsers.
SetActiveTab ==
    \E tab \in Tabs :
        /\ NoModal
        /\ tab # activeTab
        /\ activeTab' = tab
        /\ GridUnmounted
        /\ fetching' = IF tab = "tasks" THEN FetchUsersStarted(tasks, <<>>) ELSE <<>>
        /\ emitted' = NoReport /\ toast' = NoToast
        /\ UNCHANGED <<tasks, isLoading, listening, overviewVars, now, backendVars,
                       taskDialogVars, auth>>
        /\ Renders(TRUE, TRUE)

\* the controls of the "overview" tab are on the page while it is the active
\* tab; TaskGrid and ReportDialog are not
OverviewUsable == activeTab = "overview" /\ NoModal

\* a step of a control of the "overview" tab: Home renders when its state is
\* given a new value, and TaskDialog with it
OverviewFrame(rendered) ==
    /\ emitted' = NoReport /\ toast' = NoToast
    /\ UNCHANGED <<tasks, isLoading, listening, activeTab, gridControls, isGridView,
                   isFilterOpen, userSearchQuery, usersVars, isReportDialogOpen, now,
                   dialogVars, reportSearch, backendVars, taskDialogVars, auth, mail,
                   deletion>>
    /\ Renders(FALSE, rendered)

\* onCheckedChange of the "Show Revenue" Switch: the opposite of the
\* displayed state
setShowRevenue ==
    /\ OverviewUsable
    /\ showRevenue' = ~showRevenue
    /\ UNCHANGED timeRange
    /\ OverviewFrame(TRUE)

TimeRanges == {"daily", "weekly", "monthly"}

\* the buttons Daily, Weekly and Monthly of the card "Task Trend":
\* setTimeRange('daily'), setTimeRange('weekly'), setTimeRange('monthly')
setTimeRange ==
    \E r \in TimeRanges :
        /\ OverviewUsable
        /\ timeRange' = r
        /\ UNCHANGED showRevenue
        /\ OverviewFrame(r # timeRange)

-----------------------------------------------------------------------------
(* TaskDialog and page.tsx: editing and saving a task *)

\* String.prototype.trim
RECURSIVE TrimLeft(_)
TrimLeft(s) ==
    IF s # <<>> /\ Head(s) = " " THEN TrimLeft(Tail(s)) ELSE s

RECURSIVE TrimRight(_)
TrimRight(s) ==
    IF s # <<>> /\ s[Len(s)] = " " THEN TrimRight(SubSeq(s, 1, Len(s) - 1)) ELSE s

Trim(s) == TrimRight(TrimLeft(s))

\* handleSaveTask: user, of the render whose Save button started the run
CurrentUser == UserDoc(saving.uid)

\* the File objects the file input can hand over: two different files with one
\* name (from two folders) and an image
FileInputs ==
    { [name |-> "a.pdf", type |-> "application/pdf", content |-> "c1"],
      [name |-> "a.pdf", type |-> "application/pdf", content |-> "c2"],
      [name |-> "p.png", type |-> "image/png", content |-> "c3"] }

\* Array.prototype.join('/')
RECURSIVE JoinPath(_)
JoinPath(segments) ==
    IF Len(segments) = 0 THEN ""
    ELSE IF Len(segments) = 1 THEN segments[1]
    ELSE segments[1] \o "/" \o JoinPath(Tail(segments))

\* handleSaveTask: imagePath.split('/'); a file name holds no '/'
ImagePath(uid, stamp, index, file) ==
    <<"tasks", uid, ToString(stamp) \o "-" \o ToString(index) \o "-" \o file.name>>

\* uploadImage: fullPath, from the path without its last segment
FullPath(path, file) ==
    JoinPath(SubSeq(path, 1, Len(path) - 1)) \o "/" \o file.name

\* uploadImage: the object uploadBytes writes; an image is compressed first
FileToUpload(file) ==
    IF file.type \in {"image/png"} THEN "compressed " \o file.content ELSE file.content

\* getDownloadURL: the URL of the object at a path
DownloadURL(fullPath) == "https://storage/" \o fullPath

\* handleSaveTask: newImageUrls, index counted from 0; stamp is Date.now() of
\* the calls of the map, which run before the first await
NewImageUrls(files, stamp) ==
    [i \in DOMAIN files |->
        DownloadURL(FullPath(ImagePath(CurrentUser.id, stamp, i - 1, files[i]), files[i]))]

\* uploadBytes to a path: the object at the path is replaced
StorageAfterUpload(bucket, path, object) ==
    [q \in DOMAIN bucket \cup {path} |-> IF q = path THEN object ELSE bucket[q]]

\* the bucket at the start: an earlier upload of a file named a.pdf by the user
StoredObjects == [p \in {"tasks/u1/a.pdf"} |-> "c0"]

\* resetForm
emptyForm ==
    [title |-> <<>>, site |-> <<>>, description |-> <<>>, notes |-> <<>>,
     taskImages |-> <<>>, existingImages |-> <<>>, type |-> "job",
     source |-> "call", priority |-> "medium", dateInitiated |-> None,
     dateCompleted |-> None, requiresMaterial |-> FALSE,
     materialStatus |-> NULL, materialDescription |-> <<>>,
     quotedPrice |-> None, confirmedPrice |-> None,
     workConfirmationStatus |-> "awaiting", poNumber |-> <<>>]

\* the effect on editingTask: the form takes the fields of the task; the
\* files chosen stay as they are
FormFromTask(f, t) ==
    [title |-> t.title, site |-> t.site, description |-> t.description,
     notes |-> t.notes, taskImages |-> f.taskImages, existingImages |-> t.images,
     type |-> t.type, source |-> t.source, priority |-> t.priority,
     dateInitiated |-> t.dateInitiated, dateCompleted |-> t.dateCompleted,
     requiresMaterial |-> t.requiresMaterial,
     materialStatus |-> t.materialStatus,
     materialDescription |-> t.materialDescription,
     quotedPrice |-> OrNull(t.quotedPrice),
     confirmedPrice |-> OrNull(t.confirmedPrice),
     workConfirmationStatus |-> t.workConfirmationStatus,
     poNumber |-> t.poNumber]

\* a status that looks at the initiation date first
FormStatusInitiatedFirst(f) ==
    IF IsSome(f.dateInitiated) THEN "in-progress"
    ELSE IF IsSome(f.dateCompleted) THEN "completed"
    ELSE "not-initiated"

\* TaskDialog.status
FormStatus(f) ==
    IF IsSome(f.dateCompleted) THEN "completed"
    ELSE IF IsSome(f.dateInitiated) THEN "in-progress"
    ELSE "not-initiated"

\* the checks without the one on the material status
SaveValidNoMaterialCheck(f) ==
    /\ Trim(f.title) # <<>>
    /\ Trim(f.site) # <<>>
    /\ ~(IsSome(f.dateCompleted) /\ IsSome(f.dateInitiated)
          /\ isBefore(Val(f.dateCompleted), Val(f.dateInitiated)))

\* TaskDialog.handleSave: the four checks before the save
SaveValid(f) ==
    /\ Trim(f.title) # <<>>
    /\ Trim(f.site) # <<>>
    /\ ~(IsSome(f.dateCompleted) /\ IsSome(f.dateInitiated)
          /\ isBefore(Val(f.dateCompleted), Val(f.dateInitiated)))
    /\ ~(f.requiresMaterial /\ f.materialStatus = NULL)

\* TaskDialog.handleSave: the argument of onSave; poNumber <<>> is undefined
TaskData(f) ==
    [title |-> f.title, site |-> f.site, description |-> f.description,
     notes |-> f.notes, status |-> FormStatus(f), images |-> f.taskImages,
     existingImages |-> f.existingImages, type |-> f.type,
     source |-> f.source, priority |-> f.priority,
     dateInitiated |-> f.dateInitiated, dateCompleted |-> f.dateCompleted,
     requiresMaterial |-> f.requiresMaterial,
     materialStatus |-> IF f.requiresMaterial THEN f.materialStatus ELSE NULL,
     materialDescription |-> IF f.requiresMaterial THEN f.materialDescription ELSE <<>>,
     quotedPrice |-> f.quotedPrice, confirmedPrice |-> f.confirmedPrice,
     workConfirmationStatus |-> f.workConfirmationStatus,
     poNumber |-> Trim(f.poNumber)]

\* handleSaveTask: taskToSave without the poNumber field; clock is new Date()
\* after the uploads
TaskToSave(td, stamp, clock) ==
    [title |-> td.title, site |-> td.site, description |-> td.description,
     notes |-> td.notes, status |-> td.status,
     images |-> td.existingImages \o NewImageUrls(td.images, stamp),
     uploaderEmail |-> CurrentUser.email, type |-> td.type,
     source |-> td.source, priority |-> td.priority,
     dateInitiated |-> td.dateInitiated, dateCompleted |-> td.dateCompleted,
     requiresMaterial |-> td.requiresMaterial,
     materialStatus |-> IF td.requiresMaterial THEN td.materialStatus ELSE NULL,
     materialDescription |->
        IF td.requiresMaterial THEN td.materialDescription ELSE <<>>,
     quotedPrice |-> OrNull(td.quotedPrice),
     confirmedPrice |-> OrNull(td.confirmedPrice),
     workConfirmationStatus |-> td.workConfirmationStatus,
     updatedAt |-> clock, timeSlots |-> <<>>]

\* the fields of taskToSave
TaskToSaveFields(td) == DOMAIN TaskToSave(td, 0, 0)

\* an object written without the two material fields
FieldsWrittenWithoutMaterial(td) ==
    (TaskToSaveFields(td) \ {"materialStatus", "materialDescription"})
        \cup (IF Trim(td.poNumber) # <<>> THEN {"poNumber"} ELSE {})

\* handleSaveTask: "Only add poNumber to the object if it has a non-empty
\* value"; the result is the set of fields of the object written
FieldsWritten(td) ==
    IF Trim(td.poNumber) # <<>>
    THEN TaskToSaveFields(td) \cup {"poNumber"}
    ELSE TaskToSaveFields(td)

ValueWritten(td, field, stamp, clock) ==
    IF field = "poNumber" THEN Trim(td.poNumber) ELSE TaskToSave(td, stamp, clock)[field]

\* Firestore updateDoc: the fields of the object replace those of the
\* document, every other field of the document stays
updateDoc(old, td, stamp, clock) ==
    [field \in DOMAIN old \cup FieldsWritten(td) |->
        IF field \in FieldsWritten(td) THEN ValueWritten(td, field, stamp, clock)
        ELSE old[field]]

\* Firestore addDoc of {...taskToSave, userId, createdAt}; a field that is
\* not written is absent (<<>> for poNumber)
addDoc(id, td, stamp, clock) ==
    [field \in TaskToSaveFields(td) \cup {"id", "userId", "createdAt", "poNumber"} |->
        CASE field = "id" -> id
          [] field = "userId" -> CurrentUser.id
          [] field = "createdAt" -> clock
          [] field = "poNumber" ->
                IF "poNumber" \in FieldsWritten(td)
                THEN ValueWritten(td, field, stamp, clock) ELSE <<>>
          [] OTHER -> TaskToSave(td, stamp, clock)[field]]

\* the id Firestore gives the k-th document added
NewId(k) == "n" \o ToString(k)

\* the run of handleSave in flight: pc is where it waits ("uploading":
\* Promise.all of the uploads, "writing": updateDoc or addDoc), td the
\* argument of onSave, editing the editingTask of the render that was
\* clicked, stamp its Date.now(), clock the new Date() of taskToSave, uploads
\* where each uploadImage waits ("uploading": uploadBytes, compression before
\* it; "locating": getDownloadURL; "done"), orphans the uploads of runs that
\* have ended which have not reached the bucket yet, uid the user.uid of the
\* render that was clicked, detached whether the Home of the run has been
\* taken off the page (its setters then change nothing)
SavingIdle ==
    [isUploading |-> FALSE, pc |-> "idle", td |-> TaskData(emptyForm),
     editing |-> None, stamp |-> 0, clock |-> 0, uploads |-> <<>>, orphans |-> <<>>,
     uid |-> "", detached |-> FALSE]

SaveInit ==
    /\ store = [id \in {"t1", "t3"} |-> DocOf(id)]
    /\ storage = StoredObjects
    /\ editingTask = None
    /\ isTaskDialogOpen = FALSE
    /\ form = emptyForm
    /\ showPreview = FALSE
    /\ saving = SavingIdle
    /\ saves = 0

\* the onSnapshot listener delivers the stored collection, newest first
StoreSnapshot ==
    \E s \in [1..Cardinality(DOMAIN store) -> {SnapshotTask(store[id]) : id \in DOMAIN store}] :
        /\ IsSnapshot(s)
        /\ UNCHANGED store
        /\ Delivered(s)

\* a step of Home on the task dialog: Home renders, and the dialog with it
HomeFrame ==
    /\ emitted' = NoReport /\ toast' = NoToast
    /\ UNCHANGED <<pageVars, gridControls, isGridView, isFilterOpen, userSearchQuery, usersVars, isReportDialogOpen,
                   now, dialogVars, reportSearch, backendVars, saving, auth, mail,
                   deletion>>
    /\ Renders(TRUE, TRUE)

\* the "Add Work Task" button of the "tasks" tab: setEditingTask(null),
\* setIsTaskDialogOpen(true).  The dialog is opened while a write remains
\* within MaxSaves.
OpenNewTask ==
    /\ activeTab = "tasks" /\ NoModal
    /\ saves < MaxSaves
    /\ editingTask' = None
    /\ isTaskDialogOpen' = TRUE
    /\ UNCHANGED <<form, showPreview>>
    /\ HomeFrame

\* the Update button of a task that is displayed: setEditingTask(task),
\* setIsTaskDialogOpen(true); the effect on editingTask fills the form
handleEditTask ==
    \E task \in Elements(currentTasks) :
        /\ GridUsable
        /\ saves < MaxSaves
        /\ editingTask' = Some(task)
        /\ isTaskDialogOpen' = TRUE
        /\ form' = FormFromTask(form, task)
        /\ UNCHANGED showPreview
        /\ HomeFrame

\* the task dialog is on the page
TaskDialogShown == HomeShown(auth) /\ isTaskDialogOpen

\* TaskDialog onOpenChange(false): the dialog is dismissed; resetForm leaves
\* isUploading as it is
CloseTaskDialog ==
    /\ TaskDialogShown
    /\ isTaskDialogOpen' = FALSE
    /\ editingTask' = None
    /\ form' = emptyForm
    /\ showPreview' = FALSE
    /\ HomeFrame

\* the form of the dialog is rendered while the preview is not shown
FormUsable == TaskDialogShown /\ ~showPreview

\* a step of a field of the form: TaskDialog renders when rendered holds
FormFrame(rendered) ==
    /\ emitted' = NoReport
    /\ UNCHANGED <<pageVars, gridControls, isGridView, isFilterOpen, userSearchQuery, usersVars, isReportDialogOpen,
                   now, dialogVars, reportSearch, backendVars, editingTask,
                   isTaskDialogOpen, showPreview, saving, auth, mail, deletion>>
    /\ Renders(FALSE, rendered)

\* "Review & Save" / "Review & Update", disabled={!title.trim()}, and the Back
\* button of the preview
SetShowPreview ==
    \E v \in BOOLEAN :
        /\ TaskDialogShown
        /\ v # showPreview
        /\ v => Trim(form.title) # <<>>
        /\ showPreview' = v
        /\ emitted' = NoReport /\ toast' = NoToast
        /\ UNCHANGED <<pageVars, gridControls, isGridView, isFilterOpen, userSearchQuery, usersVars, isReportDialogOpen,
                       now, dialogVars, reportSearch, backendVars, editingTask,
                       isTaskDialogOpen, form, saving, auth, mail, deletion>>
        /\ Renders(FALSE, TRUE)

TitleInputs == {<<"j">>, <<" ">>}
SiteInputs == {<<>>, <<"s">>}
DescriptionInputs == {<<>>, <<"d">>}
NotesInputs == {<<>>, <<"n">>}
SourceInputs == {"call", "email"}
PriorityInputs == {"medium", "urgent"}
PriceInputs == {<<>>, <<"0">>, <<"7", "5">>}
PoInputs == {<<>>, <<" ">>, <<" ", "P", "9">>}
MaterialStatusInputs == {"ordered", "received"}
MaterialDescriptionInputs == {<<>>, <<"m">>}

\* onChange of a text input or onValueChange of a Select or RadioGroup of the
\* form: the value has changed
SetField(field, v) ==
    /\ FormUsable
    /\ v # form[field]
    /\ form' = [form EXCEPT ![field] = v]
    /\ toast' = NoToast
    /\ FormFrame(TRUE)

SetTitle == \E v \in TitleInputs : SetField("title", v)

SetSite == \E v \in SiteInputs : SetField("site", v)

SetDescription == \E v \in DescriptionInputs : SetField("description", v)

SetNotes == \E v \in NotesInputs : SetField("notes", v)

\* the type button, rendered for a new task only:
\* setType(type === 'project' ? 'job' : 'project')
SetType ==
    /\ ~IsSome(editingTask)
    /\ SetField("type", IF form.type = "project" THEN "job" ELSE "project")

SetSource == \E v \in SourceInputs : SetField("source", v)

SetPriority == \E v \in PriorityInputs : SetField("priority", v)

\* parseFloat of the text of a number input that holds digits only
RECURSIVE parseFloat(_)
parseFloat(text) ==
    IF Len(text) = 0 THEN 0
    ELSE 10 * parseFloat(SubSeq(text, 1, Len(text) - 1))
         + (IndexIn(Digits, text[Len(text)]) - 1)

\* onChange of a price input: e.target.value ? parseFloat(e.target.value) : null
PriceEntered(text) == IF text = <<>> THEN None ELSE Some(parseFloat(text))

SetQuotedPrice == \E text \in PriceInputs : SetField("quotedPrice", PriceEntered(text))

SetConfirmedPrice == \E text \in PriceInputs : SetField("confirmedPrice", PriceEntered(text))

SetWorkConfirmation == \E v \in {"awaiting", "confirmed"} : SetField("workConfirmationStatus", v)

\* the PO Number input, shown when workConfirmationStatus === 'confirmed'
SetPoNumber ==
    \E v \in PoInputs :
        /\ form.workConfirmationStatus = "confirmed"
        /\ SetField("poNumber", v)

\* the days a date picker of the task form shows, each as the Date of its
\* midnight
FormCalendarDates ==
    {At(d, 0) : d \in (StartDay - FormBack)..(StartDay + MaxDayAdvance + 1)}

\* handleDateCompletedChange: whether the date is turned down, and why; t is
\* the today of the render
DateCompletedRejected(f, date, t) ==
    \/ IsSome(date) /\ isAfter(Val(date), t)
    \/ IsSome(date) /\ IsSome(f.dateInitiated) /\ isBefore(Val(date), Val(f.dateInitiated))

\* handleDateCompletedChange: the form after the call
handleDateCompletedChange(f, date, t) ==
    IF DateCompletedRejected(f, date, t) THEN f
    ELSE [f EXCEPT !.dateCompleted = date]

DateCompletedToast(f, date, t) ==
    IF IsSome(date) /\ isAfter(Val(date), t)
    THEN Toast("Invalid Date", "Cannot select a future date")
    ELSE IF IsSome(date) /\ IsSome(f.dateInitiated) /\ isBefore(Val(date), Val(f.dateInitiated))
    THEN Toast("Invalid Date", "Completion date cannot be earlier than initiation date")
    ELSE NoToast

\* a handler that turns no date down
DateInitiatedNeverRejected(date, t) == FALSE

\* handleDateInitiatedChange: whether the date is turned down
DateInitiatedRejected(date, t) ==
    IsSome(date) /\ isAfter(Val(date), t)

\* handleDateInitiatedChange: whether the completion date is cleared
CompletionCleared(f, date) ==
    IsSome(date) /\ IsSome(f.dateCompleted) /\ isBefore(Val(f.dateCompleted), Val(date))

\* handleDateInitiatedChange: the form after the call
handleDateInitiatedChange(f, date, t) ==
    IF DateInitiatedRejected(date, t) THEN f
    ELSE [f EXCEPT !.dateInitiated = date,
                   !.dateCompleted = IF CompletionCleared(f, date) THEN None ELSE @]

DateInitiatedToast(f, date, t) ==
    IF DateInitiatedRejected(date, t)
    THEN Toast("Invalid Date", "Cannot select a future date")
    ELSE IF CompletionCleared(f, date)
    THEN Toast("Notice", "Completion date was cleared as it was earlier than the new initiation date")
    ELSE NoToast

\* disabled={(date) => isAfter(date, today)} of the Date Initiated calendar
InitiatedCalendarDisabled(date) == isAfter(date, formToday)

\* disabled of the Date Completed calendar
CompletedCalendarDisabled(date) ==
    isAfter(date, formToday)
    \/ (IF IsSome(form.dateInitiated) THEN isBefore(date, Val(form.dateInitiated)) ELSE FALSE)

\* the Date Initiated picker, shown when workConfirmationStatus === 'confirmed':
\* a click on a day that is not disabled
DateInitiatedChange ==
    \E d \in FormCalendarDates :
        /\ FormUsable
        /\ form.workConfirmationStatus = "confirmed"
        /\ ~InitiatedCalendarDisabled(d)
        /\ form' = handleDateInitiatedChange(form, Clicked(d, form.dateInitiated), formToday)
        /\ toast' = DateInitiatedToast(form, Clicked(d, form.dateInitiated), formToday)
        /\ FormFrame(form' # form)

\* the Date Completed picker, shown when workConfirmationStatus === 'confirmed':
\* a click on a day that is not disabled
DateCompletedChange ==
    \E d \in FormCalendarDates :
        /\ FormUsable
        /\ form.workConfirmationStatus = "confirmed"
        /\ ~CompletedCalendarDisabled(d)
        /\ form' = handleDateCompletedChange(form, Clicked(d, form.dateCompleted), formToday)
        /\ toast' = DateCompletedToast(form, Clicked(d, form.dateCompleted), formToday)
        /\ FormFrame(form' # form)

\* the Material Required switch: onCheckedChange={setRequiresMaterial}
SetRequiresMaterial == SetField("requiresMaterial", ~form.requiresMaterial)

\* the Material Status select, shown when requiresMaterial
SetMaterialStatus ==
    \E v \in MaterialStatusInputs :
        /\ form.requiresMaterial
        /\ SetField("materialStatus", v)

\* the Material Description textarea, shown when requiresMaterial
SetMaterialDescription ==
    \E v \in MaterialDescriptionInputs :
        /\ form.requiresMaterial
        /\ SetField("materialDescription", v)

\* slots counted without the documents the task already has
RemainingSlotsNewOnly(f) == FileLimit - Len(f.taskImages)

\* handleFileChange: the files chosen are appended unless they exceed the
\* slots that remain
RemainingSlots(f) == FileLimit - (Len(f.taskImages) + Len(f.existingImages))

handleFileChange ==
    \E files \in {<<a>> : a \in FileInputs} \cup {<<a, b>> : a, b \in FileInputs} :
        /\ FormUsable
        /\ Len(form.taskImages) + Len(files) <= MaxFiles
        /\ IF Len(files) > RemainingSlots(form)
           THEN /\ form' = form
                /\ toast' = Toast("Error", "You can only add " \o ToString(RemainingSlots(form))
                                  \o " more file" \o (IF RemainingSlots(form) = 1 THEN "" ELSE "s"))
           ELSE /\ form' = [form EXCEPT !.taskImages = @ \o files]
                /\ toast' = NoToast
        /\ FormFrame(Len(files) <= RemainingSlots(form))

\* removeFile(index, isExisting), index counted from 0
FormAfterRemove(f, index, isExisting) ==
    IF isExisting
    THEN [f EXCEPT !.existingImages =
             SubSeq(@, 1, index) \o SubSeq(@, index + 2, Len(@))]
    ELSE [f EXCEPT !.taskImages =
             SubSeq(@, 1, index) \o SubSeq(@, index + 2, Len(@))]

\* the remove buttons that are clicked: of the first and of the last file of
\* either list
RemoveInputs(f) ==
    {<<i, TRUE>> : i \in {0, Len(f.existingImages) - 1} \cap (0..(Len(f.existingImages) - 1))}
    \cup {<<i, FALSE>> : i \in {0, Len(f.taskImages) - 1} \cap (0..(Len(f.taskImages) - 1))}

\* the remove button of a file of the form
removeFile ==
    \E r \in RemoveInputs(form) :
        /\ FormUsable
        /\ form' = FormAfterRemove(form, r[1], r[2])
        /\ toast' = NoToast
        /\ FormFrame(TRUE)

\* a task that has nearly as many, or as many, documents as a task may have
FullDoc(n) ==
    Doc("t9", <<"f">>, <<"l", "o", "t">>, "not-initiated", "job", "medium", "u1",
        At(StartDay - 1, 0), FALSE, NULL, <<>>, [i \in 1..n |-> "g" \o ToString(i)],
        None, None, "awaiting", <<>>, None, None)

\* the onSnapshot listener delivers a collection of that one task
FullSnapshot ==
    \E n \in (FileLimit - LimitMargin)..FileLimit :
        /\ store' = [id \in {"t9"} |-> FullDoc(n)]
        /\ Delivered(<<SnapshotTask(FullDoc(n))>>)

\* handleSaveTask: the write
StoreAfterSave(st, editing, td, k, stamp, clock) ==
    IF IsSome(editing)
    THEN [st EXCEPT ![Val(editing).id] = updateDoc(st[Val(editing).id], td, stamp, clock)]
    ELSE [id \in DOMAIN st \cup {NewId(k)} |->
            IF id \in DOMAIN st THEN st[id] ELSE addDoc(NewId(k), td, stamp, clock)]

\* TaskDialog.handleSave: the toast of the first check that fails
ValidationToast(f) ==
    IF Trim(f.title) = <<>>
    THEN Toast("Error", "Please provide a " \o f.type \o " title")
    ELSE IF Trim(f.site) = <<>>
    THEN Toast("Error", "Please provide a site address")
    ELSE IF IsSome(f.dateCompleted) /\ IsSome(f.dateInitiated)
            /\ isBefore(Val(f.dateCompleted), Val(f.dateInitiated))
    THEN Toast("Error", "Completion date cannot be earlier than initiation date")
    ELSE IF f.requiresMaterial /\ f.materialStatus = NULL
    THEN Toast("Error", "Please select a material status")
    ELSE NoToast

\* handleSaveTask: the toast after the write, or after its failure
WriteToast(editing, written) ==
    IF written
    THEN Toast("Success", IF IsSome(editing) THEN "Task updated successfully!"
                          ELSE "Task added successfully!")
    ELSE Toast("Error", IF IsSome(editing) THEN "Failed to update task"
                        ELSE "Failed to add task")

\* whether the write of handleSaveTask goes through; ok is whether Firestore
\* accepts it, and updateDoc needs the document to exist
Written(ok) ==
    ok /\ (IsSome(saving.editing) => Val(saving.editing).id \in DOMAIN store)

\* handleSaveTask: the state of a run once Promise.all of the uploads has
\* settled well: taskToSave is built with new Date() and the write is issued
WriteIssued(s, clock) == [s EXCEPT !.pc = "writing", !.clock = clock]

\* handleSave up to the await of the write, for the data td
SaveStarted(s, td, editing, clock) ==
    IF Len(td.images) = 0
    THEN WriteIssued([s EXCEPT !.isUploading = TRUE, !.td = td, !.editing = editing,
                               !.stamp = clock, !.uploads = <<>>,
                               !.uid = Val(auth.user)], clock)
    ELSE [s EXCEPT !.isUploading = TRUE, !.pc = "uploading", !.td = td,
                   !.editing = editing, !.stamp = clock,
                   !.uploads = [i \in DOMAIN td.images |-> "uploading"],
                   !.uid = Val(auth.user)]

\* the path and the object of upload number i of the run
UploadPath(s, i) ==
    FullPath(ImagePath(CurrentUser.id, s.stamp, i - 1, s.td.images[i]), s.td.images[i])

UploadObject(s, i) == FileToUpload(s.td.images[i])

\* the uploads of a run that are still on their way to the bucket when the
\* run ends with the rejection of upload number failed
OrphansAfter(s, failed) ==
    LET left == SelectSeq([i \in DOMAIN s.uploads |-> i],
                          LAMBDA i : i # failed /\ s.uploads[i] = "uploading")
    IN s.orphans \o [k \in DOMAIN left |->
                        [path |-> UploadPath(s, left[k]), object |-> UploadObject(s, left[k])]]

\* the run has ended: finally setIsUploading(false)
SavingEnded(orphans) == [SavingIdle EXCEPT !.orphans = orphans]

\* the Save / Update button of the preview, disabled={isUploading}:
\* TaskDialog.handleSave with handleSaveTask as onSave, up to the first await
\* that waits.  A failed check returns before onSave.  With no new file the
\* empty Promise.all settles at once and the write is issued in this step.
\* One run is followed at a time.
handleSave ==
    /\ TaskDialogShown /\ showPreview
    /\ ~saving.isUploading
    /\ saving.pc = "idle"
    /\ saves < MaxSaves
    /\ Len(saving.orphans) + Len(form.taskImages) <= MaxInFlight
    /\ IF ~SaveValid(form)
       THEN /\ toast' = ValidationToast(form)
            /\ UNCHANGED saving
       ELSE /\ toast' = NoToast
            /\ saving' = SaveStarted(saving, TaskData(form), editingTask, now)
    /\ emitted' = NoReport
    /\ UNCHANGED <<pageVars, gridControls, isGridView, isFilterOpen, userSearchQuery, usersVars, isReportDialogOpen,
                   now, dialogVars, reportSearch, backendVars, editingTask,
                   isTaskDialogOpen, form, showPreview, auth, mail, deletion>>
    /\ Renders(FALSE, SaveValid(form))

\* what is left alone by the steps of a run of handleSave after its click
SaveStepFrame ==
    /\ emitted' = NoReport
    /\ UNCHANGED <<pageVars, gridControls, isGridView, isFilterOpen, userSearchQuery, usersVars, isReportDialogOpen,
                   now, dialogVars, reportSearch, auth, mail, deletion>>

\* handleSaveTask catches the rejection and shows its toast; handleSave goes
\* on as after a save: cleanup(), onOpenChange(false), resetForm(), and
\* finally setIsUploading(false).  Home renders when the dialog was still
\* open.  The setters of a Home that has been taken off the page change
\* nothing.
SaveEnded(written) ==
    /\ toast' = WriteToast(saving.editing, written)
    /\ IF saving.detached
       THEN UNCHANGED <<editingTask, isTaskDialogOpen, form, showPreview>>
       ELSE /\ editingTask' = None
            /\ isTaskDialogOpen' = FALSE
            /\ form' = emptyForm
            /\ showPreview' = FALSE

\* uploadBytes of an upload settles (or compressImage before it rejects): the
\* object is in the bucket, or the upload is rejected and Promise.all with it
uploadBytesSettled ==
    \E i \in DOMAIN saving.uploads : \E ok \in BOOLEAN :
        /\ saving.pc = "uploading"
        /\ saving.uploads[i] = "uploading"
        /\ IF ok
           THEN /\ storage' = StorageAfterUpload(storage, UploadPath(saving, i),
                                                 UploadObject(saving, i))
                /\ saving' = [saving EXCEPT !.uploads[i] = "locating"]
                /\ toast' = NoToast
                /\ UNCHANGED <<editingTask, isTaskDialogOpen, form, showPreview>>
                /\ SaveStepFrame
                /\ UNCHANGED <<store, saves>>
                /\ Renders(FALSE, FALSE)
           ELSE /\ UNCHANGED storage
                /\ saving' = SavingEnded(OrphansAfter(saving, i))
                /\ SaveEnded(FALSE)
                /\ SaveStepFrame
                /\ UNCHANGED <<store, saves>>
                /\ Renders(isTaskDialogOpen \/ IsSome(editingTask), TRUE)

\* getDownloadURL of an upload settles: the upload is done, and with the last
\* one Promise.all; or it is rejected and Promise.all with it
getDownloadURLSettled ==
    \E i \in DOMAIN saving.uploads : \E ok \in BOOLEAN :
        /\ saving.pc = "uploading"
        /\ saving.uploads[i] = "locating"
        /\ UNCHANGED <<store, storage, saves>>
        /\ SaveStepFrame
        /\ IF ok
           THEN /\ saving' =
                     IF \A j \in DOMAIN saving.uploads : j # i => saving.uploads[j] = "done"
                     THEN WriteIssued([saving EXCEPT !.uploads[i] = "done"], now)
                     ELSE [saving EXCEPT !.uploads[i] = "done"]
                /\ toast' = NoToast
                /\ UNCHANGED <<editingTask, isTaskDialogOpen, form, showPreview>>
                /\ Renders(FALSE, FALSE)
           ELSE /\ saving' = SavingEnded(OrphansAfter(saving, i))
                /\ SaveEnded(FALSE)
                /\ Renders(isTaskDialogOpen \/ IsSome(editingTask), TRUE)

\* an upload of a run that has ended reaches the bucket, or fails
OrphanUploadSettled ==
    \E k \in DOMAIN saving.orphans : \E ok \in BOOLEAN :
        /\ storage' = IF ok
                      THEN StorageAfterUpload(storage, saving.orphans[k].path,
                                              saving.orphans[k].object)
                      ELSE storage
        /\ saving' = [saving EXCEPT !.orphans = RemoveAt(@, k)]
        /\ toast' = NoToast
        /\ UNCHANGED <<store, saves, editingTask, isTaskDialogOpen, form, showPreview>>
        /\ SaveStepFrame
        /\ Renders(FALSE, FALSE)

\* the folders uploadMultipleImages is given
UploadBasePaths == {"tasks/u1"}

\* lib/imageCompression uploadMultipleImages(files, basePath, onProgress):
\* uploadBytes of one of its files takes effect; the object, compressed when
\* it is an image, is written at basePath/file.name.  No component calls the
\* function and none of the state of the page follows a call.
uploadMultipleImages ==
    \E file \in FileInputs : \E basePath \in UploadBasePaths :
        /\ storage' = StorageAfterUpload(storage, basePath \o "/" \o file.name,
                                         FileToUpload(file))
        /\ toast' = NoToast
        /\ UNCHANGED <<store, saves, taskDialogVars>>
        /\ SaveStepFrame
        /\ Renders(FALSE, FALSE)

\* updateDoc or addDoc settles: the toast of handleSaveTask, which catches a
\* failed write itself, and the end of handleSave
WriteSettled ==
    \E ok \in BOOLEAN :
        /\ saving.pc = "writing"
        /\ IF Written(ok)
           THEN /\ store' = StoreAfterSave(store, saving.editing, saving.td, saves,
                                           saving.stamp, saving.clock)
                /\ saves' = saves + 1
           ELSE UNCHANGED <<store, saves>>
        /\ UNCHANGED storage
        /\ saving' = SavingEnded(saving.orphans)
        /\ SaveEnded(Written(ok))
        /\ SaveStepFrame
        /\ Renders(isTaskDialogOpen \/ IsSome(editingTask), TRUE)

-----------------------------------------------------------------------------
(* contexts/AuthContext.tsx: AuthProvider.  A step runs from one await to  *)
(* the next; the callbacks of onAuthStateChanged run in the order of the   *)
(* changes of the session, each with its own pending read of the record.   *)
(* A call of Firebase Auth that goes through changes the session when it   *)
(* is made; the promise of the call settles in a later step.               *)

\* the accounts of Firebase Auth at the start; u3 has no document in the
\* users collection
Accounts == {"u1", "u2", "u3"}

\* the documents of the users collection at the start
UserDocExists(uid) == uid \in Users

\* what getDoc(users/<uid>) gives: a failure, a missing document, or the role
ReadResults(a, uid) ==
    {"failed"} \cup (IF UserDocExists(uid) \/ (uid = NewAccount /\ a.docs)
                     THEN {UserRole(uid)} ELSE {"missing"})

\* signIn, signUp and logout when no call of theirs is under way
SignInIdle == [pc |-> "idle", uid |-> "", error |-> "", out |-> FALSE]

LogoutIdle == [pc |-> "idle", out |-> FALSE]

\* before the page is loaded: the state of the provider (user, userData,
\* loading), the session and the changes the observer has not been told of,
\* the reads of the observer, the calls of signIn, signUp and logout under
\* way, whether signUp has created its account (created) and whether the
\* account has its document (docs)
AuthInit ==
    [loaded |-> FALSE, session |-> None, user |-> None, userData |-> None,
     loading |-> TRUE, events |-> <<>>, reads |-> <<>>,
     signIn |-> SignInIdle, signIns |-> 0,
     signUp |-> "idle", signUps |-> 0, created |-> FALSE, docs |-> FALSE,
     logout |-> LogoutIdle, logouts |-> 0]

\* Firebase Auth: the session changes and the observer is told of a change
SessionSet(a, s) ==
    [a EXCEPT !.session = s,
              !.events = IF a.session = s THEN @ ELSE Append(@, s)]

\* signOut(auth) that goes through
signOut(a) == SessionSet(a, None)

\* signOut(auth) is called: it goes through (out), or it is rejected and the
\* session stays
SignOutCalled(a, out) == IF out THEN signOut(a) ELSE a

\* Home stops rendering its content: TaskGrid and TaskDialog are taken off
\* the page with their state, the cleanup of the effect on [user, userData]
\* unsubscribes the listener; the state of Home itself stays.  A run of
\* handleSave goes on.
HomeHidden ==
    /\ GridUnmounted
    /\ fetching' = <<>>
    /\ form' = emptyForm
    /\ showPreview' = FALSE
    /\ saving' = [saving EXCEPT !.isUploading = FALSE]
    /\ listening' = FALSE
    /\ UNCHANGED <<today, formToday>>

\* Home starts rendering its content: the effect on [user, userData] calls
\* onSnapshot; TaskGrid is mounted when its tab is the active one, and its
\* effect on tasks runs fetchUsers; TaskDialog is mounted, and its effect on
\* editingTask fills the form, which its effect on isOpen resets when the
\* dialog is closed
HomeRevealed ==
    /\ UNCHANGED <<gridControls, isGridView, isFilterOpen, userSearchQuery, userList, isReportDialogOpen, dialogVars,
                   reportSearch, showPreview, saving, mail, deletion>>
    /\ fetching' = IF activeTab = "tasks" THEN FetchUsersStarted(tasks, <<>>) ELSE <<>>
    /\ form' = IF isTaskDialogOpen /\ IsSome(editingTask)
               THEN FormFromTask(emptyForm, Val(editingTask))
               ELSE emptyForm
    /\ listening' = TRUE
    /\ today' = RenderedToday(now)
    /\ formToday' = RenderedToday(now)

\* the value of the provider after a step is not the one before it: user or
\* userData has changed, or has been given a new object (fresh), or, where
\* loading counts, loading has changed
ProviderChanged(a2, fresh, withLoading) ==
    \/ fresh
    \/ a2.user # auth.user
    \/ a2.userData # auth.userData
    \/ withLoading /\ a2.loading # auth.loading

\* Home goes on rendering what it rendered: a new value of the provider
\* (user, userData or loading) renders Home and the dialogs below it; a new
\* user or userData runs the effect on [user, userData] again, which
\* unsubscribes and calls onSnapshot anew
HomeKept(a2, fresh) ==
    /\ UNCHANGED <<gridControls, isGridView, isFilterOpen, userSearchQuery, usersVars, isReportDialogOpen, dialogVars,
                   reportSearch, form, showPreview, saving, mail, deletion>>
    /\ listening' = (listening \/ (HomeShown(a2) /\ ProviderChanged(a2, fresh, FALSE)))
    /\ today' = IF HomeShown(a2) /\ ProviderChanged(a2, fresh, TRUE)
                THEN RenderedToday(now) ELSE today
    /\ formToday' = IF HomeShown(a2) /\ ProviderChanged(a2, fresh, TRUE)
                    THEN RenderedToday(now) ELSE formToday

\* a step of the provider and what it does to the page below it; fresh: user
\* or userData is given a value that is not the one it holds
AuthPage(a2, fresh) ==
    /\ auth' = a2
    /\ emitted' = NoReport /\ toast' = NoToast
    /\ UNCHANGED <<tasks, isLoading, activeTab, overviewVars, now, backendVars, editingTask,
                   isTaskDialogOpen>>
    /\ CASE HomeShown(auth) /\ ~HomeShown(a2) -> HomeHidden
         [] ~HomeShown(auth) /\ HomeShown(a2) -> HomeRevealed
         [] OTHER -> HomeKept(a2, fresh)

\* the provider mounts: onAuthStateChanged is registered and is told of the
\* session the browser kept, if any
PageLoad ==
    \E s \in {None} \cup {Some(u) : u \in Accounts} :
        /\ ~auth.loaded
        /\ AuthPage([auth EXCEPT !.loaded = TRUE, !.session = s, !.events = <<s>>], FALSE)

\* signIn up to its first await: setLoading(true)
SignInCall ==
    \E u \in Accounts \cup {NewAccount} :
        /\ auth.loaded
        /\ auth.signIn.pc = "idle"
        /\ auth.signIns < MaxSignIns
        /\ AuthPage([auth EXCEPT !.loading = TRUE, !.signIns = @ + 1,
                                 !.signIn = [SignInIdle EXCEPT !.pc = "signing", !.uid = u]],
                    FALSE)

\* signInWithEmailAndPassword settles: signed in, getDoc is called; or
\* rejected, and the catch block calls signOut
SignInSettled ==
    \E ok \in BOOLEAN : \E out \in (IF ok THEN {FALSE} ELSE BOOLEAN) :
        /\ auth.signIn.pc = "signing"
        /\ ok => (auth.signIn.uid \in Accounts \/ auth.created)
        /\ AuthPage(IF ok
                    THEN [SessionSet(auth, Some(auth.signIn.uid)) EXCEPT !.signIn.pc = "getDoc"]
                    ELSE [SignOutCalled(auth, out) EXCEPT !.signIn.pc = "catch",
                                                          !.signIn.error = "firebase",
                                                          !.signIn.out = out],
                    FALSE)

\* signIn: getDoc settles; the calls up to the next await, or to the end: a
\* rejected read goes to the catch block, which calls signOut; with no
\* document, or a role other than admin, signOut is called; for an admin
\* setUser, setUserData and, in finally, setLoading(false)
SignInGetDoc ==
    \E r \in ReadResults(auth, auth.signIn.uid) :
        \E out \in (IF r = "admin" THEN {FALSE} ELSE BOOLEAN) :
            /\ auth.signIn.pc = "getDoc"
            /\ AuthPage(
                CASE r = "failed" ->
                        [SignOutCalled(auth, out) EXCEPT !.signIn.pc = "catch",
                                                         !.signIn.error = "firebase",
                                                         !.signIn.out = out]
                  [] r = "missing" ->
                        [SignOutCalled(auth, out) EXCEPT !.signIn.pc = "denied",
                                                         !.signIn.error = "not set up",
                                                         !.signIn.out = out]
                  [] r = "admin" ->
                        [auth EXCEPT !.user = Some(auth.signIn.uid),
                                     !.userData = Some(auth.signIn.uid),
                                     !.loading = FALSE,
                                     !.signIn = SignInIdle]
                  [] OTHER ->
                        [SignOutCalled(auth, out) EXCEPT !.signIn.pc = "denied",
                                                         !.signIn.error = "not admin",
                                                         !.signIn.out = out],
                r = "admin")

\* signIn: the signOut before a throw settles; the error thrown, or the
\* rejection of signOut, is caught, and the catch block calls signOut
SignInDenied ==
    \E out \in BOOLEAN :
        /\ auth.signIn.pc = "denied"
        /\ AuthPage([SignOutCalled(auth, out) EXCEPT
                        !.signIn.pc = "catch",
                        !.signIn.error = IF auth.signIn.out THEN @ ELSE "firebase",
                        !.signIn.out = out],
                    FALSE)

\* signIn: the signOut of the catch block settles, its rejection is logged;
\* the error is thrown, and finally setLoading(false)
SignInCatch ==
    /\ auth.signIn.pc = "catch"
    /\ AuthPage([auth EXCEPT !.loading = FALSE, !.signIn = SignInIdle], FALSE)

\* signUp up to its first await: setLoading(true)
SignUpCall ==
    /\ auth.loaded
    /\ auth.signUp = "idle"
    /\ auth.signUps < MaxSignUps
    /\ AuthPage([auth EXCEPT !.loading = TRUE, !.signUps = @ + 1, !.signUp = "creating"],
                FALSE)

\* createUserWithEmailAndPassword settles: the account is created and signed
\* in, and ensureUserDocument calls getDoc; or it is rejected (an address in
\* use, for one): the error is thrown, and finally setLoading(false)
SignUpCreated ==
    \E ok \in BOOLEAN :
        /\ auth.signUp = "creating"
        /\ ok => ~auth.created
        /\ AuthPage(IF ok
                    THEN [SessionSet(auth, Some(NewAccount)) EXCEPT !.created = TRUE,
                                                                    !.signUp = "getDoc"]
                    ELSE [auth EXCEPT !.loading = FALSE, !.signUp = "idle"],
                    FALSE)

\* signUp: the end of a call that went well: setUser, setUserData with the
\* role admin, and finally setLoading(false)
SignedUp(a) ==
    [a EXCEPT !.user = Some(NewAccount), !.userData = Some(NewAccount),
              !.loading = FALSE, !.signUp = "idle"]

\* ensureUserDocument: getDoc settles: with no document setDoc is called,
\* with one its data is returned and signUp ends; a rejection is thrown
\* again, and signUp throws
SignUpGetDoc ==
    \E r \in {"failed"} \cup (IF auth.docs THEN {"found"} ELSE {"missing"}) :
        /\ auth.signUp = "getDoc"
        /\ AuthPage(
            CASE r = "failed" -> [auth EXCEPT !.loading = FALSE, !.signUp = "idle"]
              [] r = "missing" -> [auth EXCEPT !.signUp = "setDoc"]
              [] OTHER -> SignedUp(auth),
            r = "found")

\* ensureUserDocument: setDoc settles: the document is written and signUp
\* ends; or it is rejected, and signUp throws
SignUpSetDoc ==
    \E ok \in BOOLEAN :
        /\ auth.signUp = "setDoc"
        /\ AuthPage(IF ok THEN SignedUp([auth EXCEPT !.docs = TRUE])
                    ELSE [auth EXCEPT !.loading = FALSE, !.signUp = "idle"],
                    ok)

\* the observer is called with the next change: with a user setUser(user) and
\* the calls up to getDoc, the User object being the one the state holds or
\* another; with null the three setters
ObserverCalled ==
    \E fresh \in BOOLEAN :
        /\ auth.events # <<>>
        /\ fresh \/ Head(auth.events) = auth.user
        /\ AuthPage(
            LET e == Head(auth.events)
            IN  IF IsSome(e)
                THEN [auth EXCEPT !.events = Tail(@), !.user = e,
                                  !.reads = Append(@, [uid |-> Val(e), pc |-> "getDoc",
                                                       out |-> FALSE])]
                ELSE [auth EXCEPT !.events = Tail(@), !.user = None, !.userData = None,
                                  !.loading = FALSE],
            fresh /\ Head(auth.events) # None)

\* the observer: getDoc settles; the calls up to the next await, or to the
\* end: for an admin setUserData and setLoading(false); for another role
\* signOut is called; with no document, or a rejected read, setLoading(false)
ObserverGetDoc ==
    \E i \in DOMAIN auth.reads :
        \E r \in ReadResults(auth, auth.reads[i].uid) :
            \E out \in (IF r \in {"failed", "missing", "admin"} THEN {FALSE} ELSE BOOLEAN) :
                /\ auth.reads[i].pc = "getDoc"
                /\ AuthPage(
                    CASE r \in {"failed", "missing"} ->
                            [auth EXCEPT !.reads = RemoveAt(@, i), !.loading = FALSE]
                      [] r = "admin" ->
                            [auth EXCEPT !.userData = Some(auth.reads[i].uid),
                                         !.reads = RemoveAt(@, i), !.loading = FALSE]
                      [] OTHER ->
                            [SignOutCalled(auth, out) EXCEPT !.reads[i].pc = "signedOut",
                                                             !.reads[i].out = out],
                    r = "admin")

\* the observer after await signOut(auth): setUser(null), setUserData(null);
\* a rejection is caught and logged; setLoading(false) after either
ObserverSignedOut ==
    \E i \in DOMAIN auth.reads :
        /\ auth.reads[i].pc = "signedOut"
        /\ AuthPage(IF auth.reads[i].out
                    THEN [auth EXCEPT !.user = None, !.userData = None,
                                      !.reads = RemoveAt(@, i), !.loading = FALSE]
                    ELSE [auth EXCEPT !.reads = RemoveAt(@, i), !.loading = FALSE],
                    FALSE)

\* logout, which Home calls from its Logout button, up to its await:
\* setLoading(true), and signOut is called.  One call is followed at a time.
logout ==
    \E out \in BOOLEAN :
        /\ HomeShown(auth)
        /\ auth.logout.pc = "idle"
        /\ auth.logouts < MaxLogouts
        /\ AuthPage([SignOutCalled(auth, out) EXCEPT
                        !.loading = TRUE, !.logouts = @ + 1,
                        !.logout = [pc |-> "signOut", out |-> out]],
                    FALSE)

\* logout after await signOut(auth): setUser(null), setUserData(null), or
\* the rejection is caught and "Failed to log out" thrown; finally
\* setLoading(false)
LogoutSettled ==
    /\ auth.logout.pc = "signOut"
    /\ AuthPage(IF auth.logout.out
                THEN [auth EXCEPT !.user = None, !.userData = None, !.loading = FALSE,
                                  !.logout = LogoutIdle]
                ELSE [auth EXCEPT !.loading = FALSE, !.logout = LogoutIdle],
                FALSE)

\* the state of Home as it is mounted
HomeMounted ==
    /\ tasks = <<>> /\ isLoading /\ activeTab = "overview"
    /\ timeRange = "daily" /\ ~showRevenue
    /\ editingTask = None /\ ~isTaskDialogOpen

\* router.push("/auth"), of the effect on [user, userData, router] and of
\* handleLogout, takes effect: the route leaves Home, and the Home that is
\* mounted when the route comes back starts from its initial state.  A run
\* of handleSave of the Home that has left goes on.
Navigated ==
    /\ auth.loaded /\ ~HomeShown(auth)
    /\ ~HomeMounted \/ (saving.pc # "idle" /\ ~saving.detached)
    /\ tasks' = <<>>
    /\ isLoading' = TRUE
    /\ activeTab' = "overview"
    /\ timeRange' = "daily"
    /\ showRevenue' = FALSE
    /\ editingTask' = None
    /\ isTaskDialogOpen' = FALSE
    /\ saving' = [saving EXCEPT !.detached = (saving.pc # "idle")]
    /\ emitted' = NoReport /\ toast' = NoToast
    /\ UNCHANGED <<listening, gridControls, isGridView, isFilterOpen, userSearchQuery, usersVars, isReportDialogOpen,
                   now, dialogVars, reportSearch, today, backendVars, form, showPreview,
                   formToday, auth, mail, deletion>>

-----------------------------------------------------------------------------
(* TaskList (and TaskCard, which has the same handlers for its one task):    *)
(* deleting a task, and page.tsx handleDeleteTask                            *)

\* useState of TaskList: taskToDelete, showDeleteConfirm; calls are the ids
\* onDelete was called with, pending the deleteDoc calls not yet settled
DeletionInit ==
    [taskToDelete |-> None, showDeleteConfirm |-> FALSE, calls |-> <<>>,
     pending |-> <<>>]

\* handleDelete(taskId)
DeletionAfterRequest(d, taskId) ==
    [d EXCEPT !.taskToDelete = Some(taskId), !.showDeleteConfirm = TRUE]

\* an onClose that hides the confirmation and keeps the id
DeletionAfterCloseKeepsId(d) == [d EXCEPT !.showDeleteConfirm = FALSE]

\* DeleteConfirmation onClose
DeletionAfterClose(d) ==
    [d EXCEPT !.showDeleteConfirm = FALSE, !.taskToDelete = None]

\* handleConfirmDelete: onDelete is handleDeleteTask, which calls deleteDoc
DeletionAfterConfirm(d) ==
    IF IsSome(d.taskToDelete)
    THEN [d EXCEPT !.calls = Append(@, Val(d.taskToDelete)),
                   !.pending = Append(@, Val(d.taskToDelete)),
                   !.showDeleteConfirm = FALSE, !.taskToDelete = None]
    ELSE d

\* deleteDoc(doc(db, "tasks", taskId))
StoreAfterDelete(st, taskId) == [id \in DOMAIN st \ {taskId} |-> st[id]]

\* handleDeleteTask: the toast after deleteDoc, or after its failure
DeleteToast(deleted) ==
    IF deleted THEN Toast("Success", "Task deleted successfully!")
    ELSE Toast("Error", "Failed to delete task")

\* a step of the list renders the list, or the card, only
DeleteFrame ==
    /\ emitted' = NoReport
    /\ UNCHANGED <<pageVars, gridControls, isGridView, isFilterOpen, userSearchQuery, usersVars, isReportDialogOpen,
                   now, dialogVars, reportSearch, auth, mail>>
    /\ UNCHANGED <<storage, saves, taskDialogVars>>
    /\ Renders(FALSE, FALSE)

\* the Delete button of a row of the list, or of a card of the grid: of a
\* task that is displayed
handleDelete ==
    \E task \in Elements(currentTasks) :
        /\ GridUsable
        /\ deletion' = DeletionAfterRequest(deletion, task.id)
        /\ toast' = NoToast
        /\ UNCHANGED store
        /\ DeleteFrame

\* the confirmation is closed without confirming
CloseDeleteConfirm ==
    /\ deletion.showDeleteConfirm
    /\ deletion' = DeletionAfterClose(deletion)
    /\ toast' = NoToast
    /\ UNCHANGED store
    /\ DeleteFrame

\* onConfirm of the confirmation: handleConfirmDelete, and handleDeleteTask up
\* to its await
handleConfirmDelete ==
    /\ deletion.showDeleteConfirm
    /\ Len(deletion.calls) < MaxDeletes
    /\ deletion' = DeletionAfterConfirm(deletion)
    /\ toast' = NoToast
    /\ UNCHANGED store
    /\ DeleteFrame

\* deleteDoc settles: handleDeleteTask after its await.  Deleting a document
\* that is not there succeeds.
DeleteSettled ==
    \E ok \in BOOLEAN :
        /\ deletion.pending # <<>>
        /\ deletion' = [deletion EXCEPT !.pending = Tail(@)]
        /\ store' = IF ok THEN StoreAfterDelete(store, Head(deletion.pending)) ELSE store
        /\ toast' = DeleteToast(ok)
        /\ DeleteFrame

-----------------------------------------------------------------------------
(* The program, and the program with one part of it acting *)

Init ==
    /\ GridInit
    /\ DialogInit
    /\ SaveInit
    /\ now = At(StartDay, 0)
    /\ today = RenderedToday(At(StartDay, 0))
    /\ formToday = RenderedToday(At(StartDay, 0))
    /\ emitted = NoReport
    /\ toast = NoToast
    /\ auth = AuthInit
    /\ mail = MailInit
    /\ deletion = DeletionInit

Next ==
    \/ SetActiveTab \/ TasksSnapshot \/ StoreSnapshot \/ PagedSnapshot \/ FullSnapshot
    \/ DatedSnapshot
    \/ TasksListenerError \/ FetchUsersSettled
    \/ setShowRevenue \/ setTimeRange
    \/ SetIsFilterOpen \/ SetUserSearchQuery
    \/ ToggleMulti \/ ToggleTri \/ ResetFilters \/ SearchChange \/ SortChange
    \/ SetGridView \/ handlePageChange \/ OpenReportDialog \/ CloseReportDialog
    \/ handlePeriodChange \/ DateSelect \/ StartDateSelect \/ EndDateSelect
    \/ ToggleInclude \/ SetReportSearch \/ ToggleTask \/ ClearSelection \/ SelectAll
    \/ handleGenerateReport \/ CloseEmailDialog \/ Tick
    \/ SetEmail \/ SetSendFormat \/ handleSend \/ SendSettled \/ OrphanSendSettled
    \/ OpenNewTask \/ handleEditTask \/ CloseTaskDialog \/ SetTitle \/ SetSite
    \/ SetDescription \/ SetNotes \/ SetType \/ SetSource \/ SetPriority
    \/ SetQuotedPrice \/ SetConfirmedPrice \/ SetWorkConfirmation \/ SetPoNumber
    \/ DateInitiatedChange \/ DateCompletedChange
    \/ SetRequiresMaterial \/ SetMaterialStatus \/ SetMaterialDescription
    \/ handleFileChange \/ removeFile \/ SetShowPreview \/ handleSave
    \/ uploadBytesSettled \/ getDownloadURLSettled \/ OrphanUploadSettled
    \/ WriteSettled \/ uploadMultipleImages
    \/ handleDelete \/ CloseDeleteConfirm \/ handleConfirmDelete \/ DeleteSettled
    \/ PageLoad \/ SignInCall \/ SignInSettled \/ SignInGetDoc \/ SignInDenied
    \/ SignInCatch \/ SignUpCall \/ SignUpCreated \/ SignUpGetDoc \/ SignUpSetDoc
    \/ ObserverCalled \/ ObserverGetDoc \/ ObserverSignedOut
    \/ logout \/ LogoutSettled \/ Navigated

Spec == Init /\ [][Next]_vars

\* the filter controls of the grid, the listener and fetchUsers
NextFilter ==
    \/ SetActiveTab \/ TasksSnapshot \/ FetchUsersSettled
    \/ SetIsFilterOpen \/ ToggleMulti \/ ToggleTri \/ ResetFilters \/ SearchChange
    \/ PageLoad \/ ObserverCalled \/ ObserverGetDoc

SpecFilter == Init /\ [][NextFilter]_vars

\* the sort control of the grid with the filter popover (its tri-state
\* filters and the search of the users), and the listener
NextSort ==
    \/ SetActiveTab \/ TasksSnapshot \/ FetchUsersSettled
    \/ SortChange \/ SetIsFilterOpen \/ SetUserSearchQuery \/ ToggleTri \/ ResetFilters
    \/ PageLoad \/ ObserverCalled \/ ObserverGetDoc

SpecSort == Init /\ [][NextSort]_vars

\* the report dialog without its calendars, and the listener
NextSelect ==
    \/ SetActiveTab \/ TasksSnapshot
    \/ OpenReportDialog \/ CloseReportDialog
    \/ handlePeriodChange \/ ToggleInclude \/ ToggleTask
    \/ ClearSelection \/ handleGenerateReport \/ CloseEmailDialog
    \/ PageLoad \/ ObserverCalled \/ ObserverGetDoc

SpecSelect == Init /\ [][NextSelect]_vars

\* the calendars of the report dialog, and the clock; the listener fails
NextDates ==
    \/ SetActiveTab \/ TasksListenerError \/ OpenReportDialog \/ CloseReportDialog
    \/ handlePeriodChange \/ DateSelect \/ StartDateSelect \/ EndDateSelect
    \/ handleGenerateReport \/ CloseEmailDialog \/ Tick
    \/ PageLoad \/ ObserverCalled \/ ObserverGetDoc

SpecDates == Init /\ [][NextDates]_vars

\* the task dialog and the save path, and the listener on the stored collection
NextSave ==
    \/ SetActiveTab \/ StoreSnapshot
    \/ OpenNewTask \/ handleEditTask \/ CloseTaskDialog \/ SetTitle \/ SetSite
    \/ SetDescription \/ SetWorkConfirmation \/ SetPoNumber
    \/ SetShowPreview \/ handleSave \/ WriteSettled
    \/ PageLoad \/ ObserverCalled \/ ObserverGetDoc

SpecSave == Init /\ [][NextSave]_vars

\* the date pickers of the task form, the save and the clock
NextForm ==
    \/ SetActiveTab \/ OpenNewTask \/ CloseTaskDialog \/ SetTitle \/ SetSite
    \/ SetWorkConfirmation \/ DateInitiatedChange \/ DateCompletedChange
    \/ SetShowPreview \/ handleSave \/ WriteSettled \/ Tick
    \/ PageLoad \/ ObserverCalled \/ ObserverGetDoc

SpecForm == Init /\ [][NextForm]_vars

\* the date pickers of the task form on a new and on a stored task, the save
\* and the listener
NextStatus ==
    \/ SetActiveTab \/ StoreSnapshot
    \/ OpenNewTask \/ handleEditTask \/ SetTitle \/ SetSite \/ SetType \/ SetSource
    \/ SetWorkConfirmation \/ DateInitiatedChange \/ DateCompletedChange
    \/ SetShowPreview \/ handleSave \/ WriteSettled
    \/ PageLoad \/ ObserverCalled \/ ObserverGetDoc

SpecStatus == Init /\ [][NextStatus]_vars

\* the file input of the task form, and the save with its uploads
NextUpload ==
    \/ SetActiveTab \/ StoreSnapshot
    \/ OpenNewTask \/ handleEditTask \/ SetTitle \/ SetSite
    \/ handleFileChange \/ SetShowPreview \/ handleSave
    \/ uploadBytesSettled \/ getDownloadURLSettled \/ OrphanUploadSettled
    \/ WriteSettled
    \/ PageLoad \/ ObserverCalled \/ ObserverGetDoc

SpecUpload == Init /\ [][NextUpload]_vars

\* the sort control of the grid beside the task selection of the report
\* dialog, and the listener
NextReport ==
    \/ SetActiveTab \/ TasksSnapshot
    \/ OpenReportDialog \/ CloseReportDialog
    \/ SortChange \/ handlePeriodChange \/ SetReportSearch \/ ToggleTask
    \/ SelectAll \/ ClearSelection \/ handleGenerateReport \/ CloseEmailDialog
    \/ PageLoad \/ ObserverCalled \/ ObserverGetDoc

SpecReport == Init /\ [][NextReport]_vars

\* the email dialog, opened from the report dialog; the listener fails
NextMail ==
    \/ SetActiveTab \/ TasksListenerError \/ OpenReportDialog \/ CloseReportDialog
    \/ ToggleInclude \/ handleGenerateReport \/ CloseEmailDialog
    \/ SetEmail \/ SetSendFormat \/ handleSend \/ SendSettled \/ OrphanSendSettled
    \/ PageLoad \/ ObserverCalled \/ ObserverGetDoc

SpecMail == Init /\ [][NextMail]_vars

\* the pagination of the grid under its search, filters and sort, and the
\* listener
NextPage ==
    \/ SetActiveTab \/ PagedSnapshot \/ FetchUsersSettled
    \/ SetIsFilterOpen \/ ToggleMulti \/ ResetFilters \/ SearchChange \/ SortChange
    \/ handlePageChange
    \/ PageLoad \/ ObserverCalled \/ ObserverGetDoc

SpecPage == Init /\ [][NextPage]_vars

\* deleting tasks from the list and from the grid, and the listener on the
\* stored collection
NextDelete ==
    \/ SetActiveTab \/ StoreSnapshot \/ FetchUsersSettled \/ SetGridView
    \/ handleDelete \/ CloseDeleteConfirm \/ handleConfirmDelete \/ DeleteSettled
    \/ PageLoad \/ ObserverCalled \/ ObserverGetDoc

SpecDelete == Init /\ [][NextDelete]_vars

\* the files of the task form on a new task and on a task near the limit
NextFiles ==
    \/ SetActiveTab \/ FullSnapshot
    \/ OpenNewTask \/ handleEditTask \/ CloseTaskDialog
    \/ handleFileChange \/ removeFile
    \/ PageLoad \/ ObserverCalled \/ ObserverGetDoc

SpecFiles == Init /\ [][NextFiles]_vars

\* the auth provider
NextAuth ==
    \/ PageLoad \/ SignInCall \/ SignInSettled \/ SignInGetDoc \/ SignInDenied
    \/ SignInCatch \/ SignUpCall \/ SignUpCreated \/ SignUpGetDoc \/ SignUpSetDoc
    \/ ObserverCalled \/ ObserverGetDoc \/ ObserverSignedOut
    \/ logout \/ LogoutSettled

SpecAuth == Init /\ [][NextAuth]_vars

\* every await of the provider settles and every callback is run
SpecAuthFair ==
    /\ SpecAuth
    /\ WF_vars(SignInSettled) /\ WF_vars(SignInGetDoc) /\ WF_vars(SignInDenied)
    /\ WF_vars(SignInCatch) /\ WF_vars(SignUpCreated) /\ WF_vars(SignUpGetDoc)
    /\ WF_vars(SignUpSetDoc) /\ WF_vars(ObserverCalled)
    /\ WF_vars(ObserverGetDoc) /\ WF_vars(ObserverSignedOut)
    /\ WF_vars(LogoutSettled)

\* the material fields of the task form on a new and on a stored task, the
\* save and the listener
NextMaterial ==
    \/ SetActiveTab \/ StoreSnapshot
    \/ OpenNewTask \/ handleEditTask \/ CloseTaskDialog \/ SetTitle \/ SetSite
    \/ SetNotes \/ SetRequiresMaterial \/ SetMaterialStatus \/ SetMaterialDescription
    \/ SetShowPreview \/ handleSave \/ WriteSettled
    \/ PageLoad \/ ObserverCalled \/ ObserverGetDoc

SpecMaterial == Init /\ [][NextMaterial]_vars

\* the checks of the save on a new task: the title, the site, the material
\* status, beside the prices and the priority
NextValidate ==
    \/ SetActiveTab \/ OpenNewTask \/ CloseTaskDialog \/ SetTitle \/ SetSite
    \/ SetPriority \/ SetQuotedPrice \/ SetConfirmedPrice
    \/ SetRequiresMaterial \/ SetMaterialStatus
    \/ SetShowPreview \/ handleSave \/ WriteSettled
    \/ PageLoad \/ ObserverCalled \/ ObserverGetDoc

SpecValidate == Init /\ [][NextValidate]_vars

\* the metrics of the overview over a collection whose dates hold a time of
\* day
NextAverage ==
    \/ DatedSnapshot
    \/ PageLoad \/ ObserverCalled \/ ObserverGetDoc

SpecAverage == Init /\ [][NextAverage]_vars

-----------------------------------------------------------------------------
(* The filter step *)

\* what a configuration asks of a task: membership for each non-empty set, a
\* match for each non-null tri-state, the search text somewhere when one is typed
SatisfiesAll(t, f, q) ==
    /\ q # <<>> => MatchesSearch(t, q)
    /\ f.status # {} => t.status \in f.status
    /\ f.types # {} => t.type \in f.types
    /\ f.priorities # {} => t.priority \in f.priorities
    /\ f.users # {} => t.userId \in f.users
    /\ f.materialStatus # {} => t.materialStatus \in f.materialStatus
    /\ f.requiresMaterial # NULL => (t.requiresMaterial <=> f.requiresMaterial = "true")
    /\ f.hasDocuments # NULL => (t.images # <<>> <=> f.hasDocuments = "true")
    /\ f.hasPrice # NULL =>
          ((IsSome(t.quotedPrice) \/ IsSome(t.confirmedPrice)) <=> f.hasPrice = "true")

\* how many times a task occurs in a list
Occurrences(s, t) == Cardinality({i \in DOMAIN s : s[i] = t})

\* C1: the filter step returns exactly the tasks that satisfy every configured
\* criterion, each once and in the order of the input; an empty set or a null
\* tri-state constrains nothing, so the initial configuration with an empty
\* search returns the input itself.
C1_FilterStepExact ==
    /\ \A i \in DOMAIN filteredTasks :
          SatisfiesAll(filteredTasks[i], filters, searchQuery)
    /\ \A i \in DOMAIN tasks :
          Occurrences(filteredTasks, tasks[i]) =
             IF SatisfiesAll(tasks[i], filters, searchQuery) THEN 1 ELSE 0
    /\ filteredTasks = SelectSeq(tasks, LAMBDA t : SatisfiesAll(t, filters, searchQuery))
    /\ (filters = initialFilters /\ searchQuery = <<>>) => filteredTasks = tasks

\* a full list filtered by a set, a tri-state and a search at once, some tasks
\* kept and some dropped
C1_Witness ==
    /\ Len(tasks) = MaxTasks
    /\ filters.priorities # {}
    /\ filters.hasPrice # NULL
    /\ searchQuery # <<>>
    /\ filteredTasks # <<>>
    /\ Len(filteredTasks) < Len(tasks)

-----------------------------------------------------------------------------
(* The renderers in selection mode *)

\* the start and end dates a caller may pass along with a selection: none,
\* or a range that holds some of the tasks and not others
SelectionDates ==
    {<<None, None>>, <<Some(At(StartDay - 9, 0)), Some(At(StartDay - 4, 0))>>}

\* every call that supplies the ids as selectedTasks
SelectionOptions(ids) ==
    {[period |-> "daily", startDate |-> dates[1], endDate |-> dates[2],
      includeCompleted |-> fl["completed"],
      includeInProgress |-> fl["inProgress"],
      includeNotStarted |-> fl["notStarted"],
      includeProjects |-> fl["projects"],
      includeJobs |-> fl["jobs"],
      includePriceDetails |-> FALSE,
      selectedTasks |-> Some(ids)] :
        dates \in SelectionDates, fl \in [IncludeFlags -> BOOLEAN]}

\* the place of a task in a list of tasks with distinct ids
PositionIn(ts, t) == CHOOSE j \in DOMAIN ts : ts[j].id = t.id

\* rows are the tasks of ts with an id in ids, each once, newest first, tasks
\* created at the same instant in the order of ts
IsSelectionRendering(rows, ts, ids) ==
    /\ \A i \in DOMAIN rows :
          rows[i].id \in ids /\ \E j \in DOMAIN ts : ts[j] = rows[i]
    /\ \A j \in DOMAIN ts : ts[j].id \in ids => Occurrences(rows, ts[j]) = 1
    /\ Len(rows) = Cardinality({j \in DOMAIN ts : ts[j].id \in ids})
    /\ \A i, k \in DOMAIN rows :
          i < k =>
            \/ rows[i].createdAt > rows[k].createdAt
            \/ /\ rows[i].createdAt = rows[k].createdAt
               /\ PositionIn(ts, rows[i]) < PositionIn(ts, rows[k])

\* C2: with a list of selected ids supplied, both renderers render exactly
\* the input tasks with those ids, newest first, whatever the status flags, the
\* type flags and the dates of the call; so does the report the dialog hands
\* out in selection mode.
C2_SelectionRendering ==
    /\ selectedTasks # {} =>
          \A o \in SelectionOptions(selectedTasks) :
              /\ IsSelectionRendering(PdfFilteredTasks(tasks, o, now),
                                      tasks, selectedTasks)
              /\ IsSelectionRendering(ExcelFilteredTasks(tasks, o, now),
                                      tasks, selectedTasks)
    /\ (emitted.kind # "none" /\ period = "selection") =>
          /\ IsSome(emitted.pdf) =>
                IsSelectionRendering(Val(emitted.pdf).rows, tasks, selectedTasks)
          /\ IsSome(emitted.excel) =>
                IsSelectionRendering(Val(emitted.excel).rows, tasks, selectedTasks)

\* a selection of two of three tasks rendered by both renderers while a flag
\* that one of the rendered tasks fails is off
C2_Witness ==
    /\ period = "selection"
    /\ emitted.kind = "email"
    /\ Len(tasks) = 3
    /\ Len(Val(emitted.pdf).rows) = 2
    /\ Len(Val(emitted.excel).rows) = 2
    /\ \E i \in DOMAIN Val(emitted.pdf).rows :
          \/ ~StatusIncluded(emitted.options, Val(emitted.pdf).rows[i].status)
          \/ ~TypeIncluded(emitted.options, Val(emitted.pdf).rows[i].type)

\* C3: in selection mode neither the PDF nor the spreadsheet (its Summary
\* sheet included) shows a period or a date range, and each is labelled
\* "Custom Data Report".
C3_SelectionNoPeriodFraming ==
    (emitted.kind # "none" /\ IsSome(emitted.options.selectedTasks)) =>
        /\ IsSome(emitted.pdf) =>
              /\ Val(emitted.pdf).periodLine = NoPeriodLine
              /\ Val(emitted.pdf).title = [label |-> "Custom Data Report", period |-> ""]
        /\ IsSome(emitted.excel) =>
              /\ Val(emitted.excel).periodRow.text # "range"
              /\ "Custom Data Report" \in Val(emitted.excel).labels

-----------------------------------------------------------------------------
(* The sort step *)

\* the effective price as the specification words it
ClaimedPrice(t) ==
    IF t.confirmedPrice # None THEN Val(t.confirmedPrice)
    ELSE IF t.quotedPrice # None THEN Val(t.quotedPrice)
    ELSE 0

\* the rank of a priority as the specification words it
ClaimedRank(t) ==
    CASE t.priority = "urgent" -> 4
      [] t.priority = "high" -> 3
      [] t.priority = "medium" -> 2
      [] t.priority = "low" -> 1

\* the tasks at i and k of the sorted list are in the order of the filtered list
KeepInputOrder(i, k) ==
    PositionIn(filteredTasks, filteredAndSortedTasks[i])
        < PositionIn(filteredTasks, filteredAndSortedTasks[k])

\* C4: in the price modes the tasks are in descending (price-high) or
\* ascending (price-low) order of effective price, the confirmed price if
\* present, else the quoted price if present, else 0; tasks of equal effective
\* price keep their input order.
C4_PriceSort ==
    sortBy \in {"price-high", "price-low"} =>
        \A i, k \in DOMAIN filteredAndSortedTasks :
            i < k =>
              LET pi == ClaimedPrice(filteredAndSortedTasks[i])
                  pk == ClaimedPrice(filteredAndSortedTasks[k]) IN
              \/ (sortBy = "price-high" /\ pi > pk)
              \/ (sortBy = "price-low" /\ pi < pk)
              \/ (pi = pk /\ KeepInputOrder(i, k))

\* a price sort that reorders three tasks, two of them of equal effective
\* price and one of them with both prices
C4_Witness ==
    /\ sortBy \in {"price-high", "price-low"}
    /\ Len(filteredAndSortedTasks) = 3
    /\ filteredAndSortedTasks # filteredTasks
    /\ \E i, k \in DOMAIN filteredAndSortedTasks :
          /\ i < k
          /\ ClaimedPrice(filteredAndSortedTasks[i]) = ClaimedPrice(filteredAndSortedTasks[k])
    /\ \E i \in DOMAIN filteredAndSortedTasks :
          /\ IsSome(filteredAndSortedTasks[i].confirmedPrice)
          /\ IsSome(filteredAndSortedTasks[i].quotedPrice)

\* C5: in priority-high a task of higher rank precedes every task of lower
\* rank whatever their creation times, in priority-low the rank order is
\* reversed, and in both modes tasks of equal rank are newest first.
C5_PrioritySort ==
    sortBy \in {"priority-high", "priority-low"} =>
        \A i, k \in DOMAIN filteredAndSortedTasks :
            i < k =>
              LET ri == ClaimedRank(filteredAndSortedTasks[i])
                  rk == ClaimedRank(filteredAndSortedTasks[k]) IN
              \/ (sortBy = "priority-high" /\ ri > rk)
              \/ (sortBy = "priority-low" /\ ri < rk)
              \/ /\ ri = rk
                 /\ filteredAndSortedTasks[i].createdAt
                       >= filteredAndSortedTasks[k].createdAt

\* a priority sort of three tasks, two of one rank created at different
\* times and a third of lower rank that is newer than one of them
C5_Witness ==
    /\ sortBy \in {"priority-high", "priority-low"}
    /\ Len(filteredAndSortedTasks) = 3
    /\ \E i, k \in DOMAIN filteredAndSortedTasks :
          /\ ClaimedRank(filteredAndSortedTasks[i]) = ClaimedRank(filteredAndSortedTasks[k])
          /\ filteredAndSortedTasks[i].createdAt > filteredAndSortedTasks[k].createdAt
    /\ \E i, k \in DOMAIN filteredAndSortedTasks :
          /\ ClaimedRank(filteredAndSortedTasks[i]) < ClaimedRank(filteredAndSortedTasks[k])
          /\ filteredAndSortedTasks[i].createdAt > filteredAndSortedTasks[k].createdAt

\* C6: in each of the eight modes the sorted list is a permutation of the
\* filtered list, of the same length, and sorting it again in the same mode
\* leaves it as it is.
C6_SortPermutationIdempotent ==
    \A mode \in SortOptions :
        LET sorted == SortTasks(filteredTasks, mode) IN
        /\ Len(sorted) = Len(filteredTasks)
        /\ \A i \in DOMAIN filteredTasks :
              Occurrences(sorted, filteredTasks[i]) = Occurrences(filteredTasks, filteredTasks[i])
        /\ \A i \in DOMAIN sorted : \E j \in DOMAIN filteredTasks : sorted[i] = filteredTasks[j]
        /\ SortTasks(sorted, mode) = sorted

\* a sort by title or by age that reorders three tasks, two of which the
\* comparator of some mode ties
C6_Witness ==
    /\ sortBy \in {"title-asc", "title-desc", "oldest"}
    /\ Len(filteredTasks) = MaxTasks
    /\ filteredAndSortedTasks # filteredTasks
    /\ \E i, k \in DOMAIN filteredTasks, mode \in SortOptions :
          i # k /\ Compare(mode, filteredTasks[i], filteredTasks[k]) = 0

-----------------------------------------------------------------------------
(* The dates of the report dialog *)

\* C7: a custom range whose end is earlier than its start, or with a bound
\* after now, is never the (startDate, endDate) pair of the dialog while
\* report generation is enabled, and no report is computed for one.
C7_CustomRangeValid ==
    period = "custom" =>
        /\ ~isGenerateDisabled =>
              /\ Val(startDate) <= Val(endDate)
              /\ Val(startDate) <= now
              /\ Val(endDate) <= now
        /\ emitted.kind # "none" =>
              /\ IsSome(emitted.options.startDate)
              /\ IsSome(emitted.options.endDate)
              /\ Val(emitted.options.startDate) <= Val(emitted.options.endDate)
              /\ Val(emitted.options.startDate) <= now
              /\ Val(emitted.options.endDate) <= now

\* a report computed for a custom range of several days that ends today,
\* some time after the start of the session
C7_Witness ==
    /\ period = "custom"
    /\ emitted.kind = "pdf"
    /\ Val(startDate) < Val(endDate)
    /\ DayOf(Val(endDate)) = DayOf(now)
    /\ now > At(StartDay, 0)

\* a step in which the calendar of a named period selects an anchor date
AnchorSelected ==
    /\ period \in NamedPeriods
    /\ selectedDate' # selectedDate
    /\ IsSome(selectedDate')

\* The wording of C8 as it stands: when the calendar end of the period lies
\* after now the end of the resolved range is exactly now, and otherwise it is
\* the calendar end.
C8_ClampToNow ==
    [][AnchorSelected =>
         LET r == getDefaultDateRange(period, Val(selectedDate')) IN
         endDate' = Some(IF r.end > now THEN now ELSE r.end)]_vars

\* C8: when the calendar end of a named period lies after the dialog's today,
\* the end of the resolved range is exactly that today: the last instant of
\* the day on which the dialog last rendered, which is the current day unless
\* midnight has passed since, and is never after the end of the current day;
\* a calendar end that is not after it is left unchanged.
C8_ClampToEndOfToday ==
    /\ [](today = At(DayOf(today), TicksPerDay - 1) /\ DayOf(today) <= DayOf(now))
    /\ [][AnchorSelected =>
            LET r == getDefaultDateRange(period, Val(selectedDate')) IN
            /\ startDate' = Some(r.start)
            /\ endDate' = Some(IF r.end > today THEN today ELSE r.end)]_vars

\* a named period whose calendar end is in the future, resolved to end at the
\* last instant of today while now is earlier in the day
C8_Witness ==
    /\ period \in NamedPeriods
    /\ IsSome(selectedDate)
    /\ IsSome(endDate)
    /\ getDefaultDateRange(period, Val(selectedDate)).end > At(DayOf(now), TicksPerDay - 1)
    /\ Val(endDate) = At(DayOf(now), TicksPerDay - 1)
    /\ Val(endDate) > now

\* The wording of C9 as it stands: for every accepted anchor D of a weekly
\* range, start <= D <= end, and the range runs from the start of a first day
\* to the end of the seventh.
C9_WeekSpansSixDays ==
    [][(AnchorSelected /\ period = "weekly") =>
         /\ Val(startDate') <= Val(selectedDate')
         /\ Val(selectedDate') <= Val(endDate')
         /\ Val(startDate') = At(DayOf(Val(startDate')), 0)
         /\ Val(endDate') = At(DayOf(Val(startDate')) + 6, TicksPerDay - 1)]_vars

\* C9: for every accepted anchor D of a weekly range, start <= D <= end; the
\* start is the start of the Sunday on or before D, and the end is the end of
\* the Saturday six days later, or the dialog's today (the end of the day on
\* which it last rendered) when that Saturday is after it, so the range spans
\* exactly 6 days only for a week that does not reach past that day.
C9_WeekClamped ==
    [][(AnchorSelected /\ period = "weekly") =>
         LET first == DayOf(Val(startDate'))
             saturday == At(first + 6, TicksPerDay - 1)
             lastOfToday == today IN
         /\ Val(startDate') <= Val(selectedDate')
         /\ Val(selectedDate') <= Val(endDate')
         /\ Val(startDate') = At(first, 0)
         /\ Weekday(first) = 0
         /\ DayOf(Val(selectedDate')) <= first + 6
         /\ Val(endDate') = IF saturday > lastOfToday THEN lastOfToday ELSE saturday]_vars

\* a week of the past resolved from an anchor inside it: seven whole days
C9_Witness ==
    /\ period = "weekly"
    /\ IsSome(selectedDate)
    /\ IsSome(startDate)
    /\ IsSome(endDate)
    /\ Val(startDate) < Val(selectedDate)
    /\ DayOf(Val(selectedDate)) < DayOf(Val(endDate))
    /\ DayOf(Val(endDate)) - DayOf(Val(startDate)) = 6
    /\ Val(endDate) < now

-----------------------------------------------------------------------------
(* The stored record after a save *)

\* a step in which a save writes the stored collection
SaveWrites == saves' = saves + 1

\* the id of the record a save writes: that of the task being edited, or the
\* id of the new document
SavedId == IF IsSome(saving.editing) THEN Val(saving.editing).id ELSE NewId(saves)

\* C10: the stored record carries a poNumber only when the most recent save of
\* the task supplied a non-blank PO number: a save whose PO number field is
\* empty or whitespace leaves the record it writes with no poNumber, on the
\* create path and on the update path.
C10_PoNumberOnlyWhenSupplied ==
    [][(SaveWrites /\ Trim(saving.td.poNumber) = <<>>) =>
          store'[SavedId].poNumber = <<>>]_vars

-----------------------------------------------------------------------------
(* The dates of the task form *)

\* the records that saves of the form added to the stored collection
AddedIds == {NewId(k) : k \in 0..(MaxSaves - 1)} \cap DOMAIN store

\* a set completion date comes with an initiation date that is not after it
CompletionFollowsInitiation(r) ==
    IsSome(r.dateCompleted) =>
        IsSome(r.dateInitiated) /\ Val(r.dateCompleted) >= Val(r.dateInitiated)

\* C11: in every state of the task form reached from a reset form by calls of
\* handleDateInitiatedChange and handleDateCompletedChange, and in every record
\* saved from it, a set completion date implies a set initiation date, and the
\* completion date is not earlier than the initiation date.
C11_CompletionImpliesInitiation ==
    /\ CompletionFollowsInitiation(form)
    /\ \A id \in AddedIds : CompletionFollowsInitiation(store[id])

\* the status of a record agrees with its two dates
StatusAgrees(r) ==
    /\ (r.status = "completed") <=> IsSome(r.dateCompleted)
    /\ (r.status = "in-progress") <=> (~IsSome(r.dateCompleted) /\ IsSome(r.dateInitiated))
    /\ (r.status = "not-initiated") <=> (~IsSome(r.dateCompleted) /\ ~IsSome(r.dateInitiated))

\* C12: the status saved with a task is derived from the two dates at save
\* time: completed iff a completion date is set, in-progress iff no completion
\* date and an initiation date is set, not-initiated otherwise; every save, of
\* a new task or of a stored one, writes a status that agrees with the
\* dateInitiated and dateCompleted it writes.
C12_SavedStatusFollowsDates ==
    [][SaveWrites => StatusAgrees(store'[SavedId])]_vars

\* a stored in-progress task was given a completion date in the form and saved
C12_Witness ==
    /\ DocOf("t1").status = "in-progress"
    /\ store["t1"].status = "completed"
    /\ IsSome(store["t1"].dateInitiated)
    /\ IsSome(store["t1"].dateCompleted)

-----------------------------------------------------------------------------
(* The uploads of a save *)

\* the path the claim gives the upload of the i-th new file of a save: the
\* user's id, the timestamp and the original file name
ClaimedPath(i) ==
    JoinPath(ImagePath(CurrentUser.id, saving.stamp, i - 1, saving.td.images[i]))

\* a step in which uploadBytes of the i-th new file of the save has written
UploadLands(i) ==
    /\ saving.pc = "uploading" /\ saving.uploads[i] = "uploading"
    /\ saving'.pc = "uploading" /\ saving'.uploads[i] = "locating"

\* C13: storage paths are collision-free: the uploads of a save are written
\* to distinct paths, each holding the owning user's id, a millisecond
\* timestamp and the original file name, also for two files of one name, and
\* no upload overwrites an object stored earlier.
C13_UploadPathsCollisionFree ==
    [][/\ \A p \in DOMAIN storage : p \in DOMAIN storage' /\ storage'[p] = storage[p]
       /\ \A i \in DOMAIN saving.uploads :
             UploadLands(i) =>
                 /\ ClaimedPath(i) \in DOMAIN storage'
                 /\ storage'[ClaimedPath(i)] = FileToUpload(saving.td.images[i])]_vars

-----------------------------------------------------------------------------
(* Accounts that are not admins *)

\* an account whose user record has a role other than admin
NonAdmin(uid) == UserDocExists(uid) /\ UserRole(uid) # "admin"

SignedOutContext == auth.user = None /\ auth.userData = None

UserDataOnlyForAdmins ==
    IsSome(auth.userData) => UserRole(Val(auth.userData)) = "admin"

\* C14: whenever authentication succeeds for an account whose user record
\* has a role other than admin, on the signIn path or on the observer path,
\* the session is signed out and the auth context ends with user = null and
\* userData = null; userData is never set for such an account.
C14_NonAdminSessionTerminated ==
    /\ []UserDataOnlyForAdmins
    /\ (IsSome(auth.session) /\ NonAdmin(Val(auth.session)))
          ~> (auth.session = None /\ SignedOutContext)

-----------------------------------------------------------------------------
(* The checks of a save *)

IsBlank(str) == \A i \in DOMAIN str : str[i] = " "

\* the four cases in which the form must not be saved
MustNotSave(f) ==
    \/ IsBlank(f.title)
    \/ IsBlank(f.site)
    \/ /\ IsSome(f.dateInitiated) /\ IsSome(f.dateCompleted)
       /\ Val(f.dateCompleted) < Val(f.dateInitiated)
    \/ f.requiresMaterial /\ f.materialStatus = NULL

\* C15: if the title is blank, the site is blank, the completion date is
\* earlier than the initiation date, or material is required and no material
\* status is selected, handleSave shows an error and returns before onSave:
\* nothing is uploaded, nothing is written, and the form stays as it is.
C15_InvalidSaveAborts ==
    /\ [](\A f \in {form, [form EXCEPT !.title = <<>>], [form EXCEPT !.title = <<" ">>],
                      [form EXCEPT !.site = <<" ">>],
                      [form EXCEPT !.dateInitiated = Some(At(StartDay, 0)),
                                   !.dateCompleted = Some(At(StartDay - 1, 0))]} :
             MustNotSave(f) => (~SaveValid(f) /\ ValidationToast(f).title = "Error"))
    /\ [][(handleSave /\ MustNotSave(form)) =>
             /\ toast'.title = "Error"
             /\ UNCHANGED <<store, storage, saves, form, editingTask, isTaskDialogOpen,
                            showPreview, saving>>]_vars

\* a save was turned down for the material status, with title and site given
C15_Witness ==
    /\ toast = Toast("Error", "Please select a material status")
    /\ isTaskDialogOpen /\ showPreview /\ ~saving.isUploading
    /\ form.requiresMaterial /\ form.materialStatus = NULL
    /\ ~IsBlank(form.title) /\ ~IsBlank(form.site)

-----------------------------------------------------------------------------
(* A selection report without a selection *)

\* C16: in selection mode with an empty selection handleGenerateReport, of
\* any type and with or without prices, is aborted with an error message: it
\* calls neither renderer, hands out no download and does not open the email
\* dialog.
C16_EmptySelectionAborts ==
    (period = "selection" /\ selectedTasks = {}) =>
        \A type \in ReportTypes, includePrices \in BOOLEAN :
            /\ GeneratedReport(type, includePrices) = NoReport
            /\ GenerateToast = Toast("Error", "Please select at least one task")
            /\ EmailDialogAfter(type, includePrices) = isEmailDialogOpen

\* selection mode over a list of tasks, with the selection emptied again
C16_Witness ==
    /\ period = "selection"
    /\ selectedTasks = {}
    /\ tasks # <<>>
    /\ ~isEmailDialogOpen
    /\ isGenerateDisabled

-----------------------------------------------------------------------------
(* The material fields of a saved record *)

\* C17: whenever requiresMaterial is false in a saved task record, its
\* materialStatus is null and its materialDescription is empty, whatever
\* material status and description the form held before the material switch
\* was turned off.
C17_NoMaterialMeansCleared ==
    \A id \in DOMAIN store :
        ~store[id].requiresMaterial =>
            /\ store[id].materialStatus = NULL
            /\ store[id].materialDescription = <<>>

\* a stored task with a material status and a description was saved with the
\* switch turned off
C17_Witness ==
    /\ DocOf("t1").materialStatus # NULL
    /\ DocOf("t1").materialDescription # <<>>
    /\ ~store["t1"].requiresMaterial

-----------------------------------------------------------------------------
(* Dates in the future *)

NotInFuture(date) == IsSome(date) => Val(date) <= now

\* C18: neither the initiation date nor the completion date held by the task
\* form, or saved from it, is in the future: a call of
\* handleDateInitiatedChange or handleDateCompletedChange with a day after the
\* current time is turned down, with a message, and leaves both dates as they
\* were.
C18_NoFutureDates ==
    /\ NotInFuture(form.dateInitiated) /\ NotInFuture(form.dateCompleted)
    /\ \A id \in AddedIds :
          NotInFuture(store[id].dateInitiated) /\ NotInFuture(store[id].dateCompleted)
    /\ \A d \in FormCalendarDates :
          d > now =>
            /\ handleDateInitiatedChange(form, Some(d), formToday) = form
            /\ handleDateCompletedChange(form, Some(d), formToday) = form
            /\ DateInitiatedToast(form, Some(d), formToday).title = "Invalid Date"
            /\ DateCompletedToast(form, Some(d), formToday).title = "Invalid Date"
            /\ InitiatedCalendarDisabled(d) /\ CompletedCalendarDisabled(d)

\* after midnight the form, rendered again, took the new day as initiation
\* date and as completion date; in the course of that day the days after it
\* are turned down by the handlers and disabled in the calendars
C18_Witness ==
    /\ isTaskDialogOpen
    /\ DayOf(now) > StartDay
    /\ now > startOfDay(now)
    /\ form.dateInitiated = Some(startOfDay(now))
    /\ form.dateCompleted = Some(startOfDay(now))
    /\ \E d \in FormCalendarDates :
          /\ d > now
          /\ InitiatedCalendarDisabled(d)
          /\ handleDateInitiatedChange(form, Some(d), formToday) = form

-----------------------------------------------------------------------------
(* The counts of the dashboard and of the report summaries *)

\* the three status counts add up to the total, and an empty list counts 0
CountsAddUp(c) ==
    /\ c.completed + c.inProgress + c.notStarted = c.total
    /\ c.total = 0 => (c.completed = 0 /\ c.inProgress = 0 /\ c.notStarted = 0)

\* C19: for any task collection, the empty one included, the per-status
\* counts (completed + in-progress + not-initiated) add up to the total
\* count, in the dashboard metrics and in the summaries of both reports; for
\* the empty collection every count is 0.
C19_StatusCountsAddUp ==
    /\ CountsAddUp(Metrics(tasks))
    /\ Metrics(tasks).total = Len(tasks)
    /\ tasks = <<>> => \A k \in DOMAIN Metrics(tasks) : Metrics(tasks)[k] = 0
    /\ \A includePrices \in BOOLEAN :
          /\ CountsAddUp(PdfSummary(ReportInput, ReportOptions(includePrices), now))
          /\ CountsAddUp(ExcelSummary(ReportInput, ReportOptions(includePrices), now))
          /\ PdfSummary(ReportInput, ReportOptions(includePrices), now).total
                = Len(PdfFilteredTasks(ReportInput, ReportOptions(includePrices), now))

\* three tasks, one of each status, and a report of some of them handed out
C19_Witness ==
    /\ Metrics(tasks).completed = 1
    /\ Metrics(tasks).inProgress = 1
    /\ Metrics(tasks).notStarted = 1
    /\ emitted # NoReport
    /\ IsSome(emitted.pdf)
    /\ Val(emitted.pdf).totalTasks \in 1..2

-----------------------------------------------------------------------------
(* The average completion time *)

\* the positions of the tasks that hold both dates
WithBothDates(ts) ==
    {i \in DOMAIN ts : ts[i].dateInitiated # None /\ ts[i].dateCompleted # None}

\* the calendar days from initiation to completion, summed over a set of
\* positions
RECURSIVE SumOfCalendarDays(_, _)
SumOfCalendarDays(ts, positions) ==
    IF positions = {} THEN 0
    ELSE LET i == CHOOSE j \in positions : TRUE
         IN  DayOf(Val(ts[i].dateCompleted)) - DayOf(Val(ts[i].dateInitiated))
                + SumOfCalendarDays(ts, positions \ {i})

\* the milliseconds by which the time of day of the completion is later than
\* the one of the initiation, summed over a set of positions
RECURSIVE SumOfDayTimes(_, _)
SumOfDayTimes(ts, positions) ==
    IF positions = {} THEN 0
    ELSE LET i == CHOOSE j \in positions : TRUE
         IN  MsOfTick(Val(ts[i].dateCompleted) % TicksPerDay)
                - MsOfTick(Val(ts[i].dateInitiated) % TicksPerDay)
                + SumOfDayTimes(ts, positions \ {i})

Abs(x) == IF x < 0 THEN -x ELSE x

\* count durations add up to r * count days less days calendar days and
\* more ms milliseconds: r is no more than half a day off their mean
HalfADayOff(count, days, ms) ==
    /\ Abs(days) <= 2 * count
    /\ Abs(days * MsPerDay - ms) <= count * MsPerDay - Abs(days * MsPerDay - ms)

\* r is an integer nearest to the mean, in days of 86 400 000 milliseconds,
\* of the durations of the tasks that hold both dates
IsNearestToMean(r, ts) ==
    HalfADayOff(Cardinality(WithBothDates(ts)),
                r * Cardinality(WithBothDates(ts)) - SumOfCalendarDays(ts, WithBothDates(ts)),
                SumOfDayTimes(ts, WithBothDates(ts)))

\* two tasks initiated on Jan 1, completed on Jan 11 and on Jan 1
TenAndZeroDays ==
    << [dateInitiated |-> Some(At(DaysFromCivil(2024, 1, 1), 0)),
        dateCompleted |-> Some(At(DaysFromCivil(2024, 1, 11), 0))],
       [dateInitiated |-> Some(At(DaysFromCivil(2024, 1, 1), 0)),
        dateCompleted |-> Some(At(DaysFromCivil(2024, 1, 1), 0))] >>

\* C20: the average completion time is the mean, over exactly the tasks that
\* have both an initiation and a completion date, of completion minus
\* initiation in days, rounded to the nearest integer; it is 0 when no task
\* has both dates; durations of 10 days and 0 days give 5.
C20_AverageCompletionTime ==
    /\ WithBothDates(tasks) = {} => calculateAverageCompletionTime(tasks) = 0
    /\ WithBothDates(tasks) # {} =>
          IsNearestToMean(calculateAverageCompletionTime(tasks), tasks)
    /\ calculateAverageCompletionTime(TenAndZeroDays) = 5

\* a task from midnight to the last millisecond of the next day and one of no
\* time at all, next to one that is not completed: the mean of the two, a
\* millisecond less than a day, is shown as 1
C20_Witness ==
    /\ Len(tasks) = 3
    /\ Cardinality(WithBothDates(tasks)) = 2
    /\ SumOfCalendarDays(tasks, WithBothDates(tasks)) = 1
    /\ SumOfDayTimes(tasks, WithBothDates(tasks)) = MsPerDay - 1
    /\ calculateAverageCompletionTime(tasks) = 1


-----------------------------------------------------------------------------
(* The two renderers against each other *)

\* C21: for the tasks and the options the report dialog hands to the renderers,
\* and for the whole task list with the same options, generatePDFReport and
\* generateExcelReport list the same tasks in the same order and compute the same
\* total, status, type, priority and confirmation counts, the same number of
\* tasks with a PO and, with price details, the same quoted and confirmed totals
C21_RenderersAgree ==
    \A includePrices \in BOOLEAN : \A ts \in {tasks, ReportInput} :
        /\ generatePDFReport(ts, ReportOptions(includePrices), now).rows
             = generateExcelReport(ts, ReportOptions(includePrices), now).rows
        /\ PdfAggregates(ts, ReportOptions(includePrices), now)
             = ExcelAggregates(ts, ReportOptions(includePrices), now)

\* an email report (both renderers ran) of two tasks or more with different
\* creation times, one of them with a PO and a quoted price
C21_Witness ==
    /\ emitted # NoReport
    /\ emitted.kind = "email"
    /\ Len(Val(emitted.pdf).rows) >= 2
    /\ Val(emitted.pdf).rows[1].createdAt # Val(emitted.pdf).rows[2].createdAt
    /\ Val(emitted.excel).rows = Val(emitted.pdf).rows
    /\ ExcelAggregates(ReportInput, emitted.options, now).withPO >= 1
    /\ \E q \in 1..1000 : ExcelAggregates(ReportInput, emitted.options, now).totalQuoted = Some(q)

-----------------------------------------------------------------------------
(* The callers' arrays *)

-----------------------------------------------------------------------------
(* Sending a report by email *)

\* a run of handleSend passes its checks and reaches sendReportEmail
SendAccepted == ~mail.isSending /\ mail'.isSending

\* the fetch of a run of handleSend settles and the run ends
SendEnds == mail.isSending /\ mail'.response # None

\* C23: a run of handleSend that passes the checks (an address, a format)
\* issues one POST to /api/email, so that there are as many POSTs as such runs;
\* when the fetch fails the run shows the error toast, issues no further POST
\* and leaves the dialog as it is; when it succeeds the run closes the dialog;
\* either way isSending is false when the run ends
C23_SingleAttempt ==
    /\ [](Len(mail.requests) = mail.sends)
    /\ [][SendAccepted =>
            /\ mail.email # <<>> /\ (mail.sendPdf \/ mail.sendExcel)
            /\ mail'.requests = Append(mail.requests, PostRequest(mail))]_vars
    /\ [][SendEnds =>
            /\ ~mail'.isSending
            /\ mail'.requests = mail.requests
            /\ IF SendFailed(Val(mail'.response))
               THEN /\ toast' = Toast("Error", "Failed to send report. Please try again.")
                    /\ isEmailDialogOpen' = isEmailDialogOpen
               ELSE /\ toast' = Toast("Success", "Report sent successfully")
                    /\ ~isEmailDialogOpen']_vars

\* a send failed and the dialog is still open, after an earlier send: two
\* runs, two POSTs
C23_Witness ==
    /\ mail.sends = 2
    /\ Len(mail.requests) = 2
    /\ mail.response = Some("not ok")
    /\ ~mail.isSending
    /\ isEmailDialogOpen
    /\ toast = Toast("Error", "Failed to send report. Please try again.")

-----------------------------------------------------------------------------
(* A save that fails *)

\* a step of handleSave in which the upload or the write failed: handleSaveTask
\* shows its error toast
SaveFails ==
    /\ isTaskDialogOpen
    /\ toast' \in {Toast("Error", "Failed to update task"),
                   Toast("Error", "Failed to add task")}

\* C24: a save whose upload or write fails leaves the task dialog open and the
\* form as the user filled it
C24_FailedSaveKeepsForm ==
    [][SaveFails => isTaskDialogOpen' /\ form' = form]_vars

-----------------------------------------------------------------------------
(* Pagination *)

\* C25: whenever the filtered list is not empty, the current page is one of
\* the pages 1..totalPages and shows between 1 and 10 tasks
C25_PageInRange ==
    Len(filteredAndSortedTasks) > 0 =>
        /\ 1 <= currentPage /\ currentPage <= totalPages
        /\ 1 <= Len(currentTasks) /\ Len(currentTasks) <= ITEMS_PER_PAGE

-----------------------------------------------------------------------------
(* The tri-state filters *)

\* the grid's list under the current controls with one filter unconstrained
ListWithout(dim) ==
    SortTasks(FilterStep(tasks, [filters EXCEPT ![dim] = NULL], searchQuery), sortBy)

\* C26: unchecking the Requires Material, Has Documents or Has Price Details
\* filter after it was checked returns it to the unconstrained state, and the
\* grid lists what it listed before the filter was checked
C26_TriStateRoundTrip ==
    [][\A dim \in TriDims :
          (filters[dim] = "true" /\ filters'[dim] # "true") =>
              /\ filters'[dim] = NULL
              /\ filteredAndSortedTasks' = ListWithout(dim)]_vars

-----------------------------------------------------------------------------
(* The auth context under interleaving *)

\* C27: in every state of the auth provider, userData is set only while user
\* is set, and it is the record of that user
C27_UserDataMatchesUser ==
    IsSome(auth.userData) =>
        /\ IsSome(auth.user)
        /\ Val(auth.userData) = Val(auth.user)

-----------------------------------------------------------------------------
(* The selection of the report dialog and the live task list *)

\* C28: in selection mode every selected id is the id of a task of the current
\* list, so that a report of the selection has as many rows as the dialog
\* counts selected tasks
C28_SelectionWithinTasks ==
    period = "selection" =>
        /\ selectedTasks \subseteq {tasks[i].id : i \in DOMAIN tasks}
        /\ \A includePrices \in BOOLEAN :
              Len(generatePDFReport(ReportInput, ReportOptions(includePrices), now).rows)
                  = Cardinality(selectedTasks)

-----------------------------------------------------------------------------
(* Deleting a task *)

\* onDelete is called in this step
DeleteCalled == deletion'.calls # deletion.calls

\* C29: onDelete is called only by a confirmation, one call with the id that
\* is pending; an id becomes pending only by handleDelete for a task of the list,
\* which opens the confirmation; closing the confirmation clears the
\* pending id; and with no pending id no call is made
C29_DeleteOnlyAfterConfirmation ==
    /\ [][DeleteCalled =>
            /\ deletion.showDeleteConfirm
            /\ IsSome(deletion.taskToDelete)
            /\ deletion'.calls = Append(deletion.calls, Val(deletion.taskToDelete))]_vars
    /\ [][(IsSome(deletion'.taskToDelete) /\ deletion'.taskToDelete # deletion.taskToDelete) =>
            /\ deletion'.showDeleteConfirm
            /\ Val(deletion'.taskToDelete) \in {currentTasks[i].id : i \in DOMAIN currentTasks}
            /\ ~DeleteCalled]_vars
    /\ [][(deletion.showDeleteConfirm /\ ~deletion'.showDeleteConfirm) =>
            deletion'.taskToDelete = None]_vars
    /\ [][~IsSome(deletion.taskToDelete) => ~DeleteCalled]_vars
    /\ [](DeletionAfterConfirm([deletion EXCEPT !.taskToDelete = None]).calls = deletion.calls)
    /\ [](~deletion.showDeleteConfirm => deletion.taskToDelete = None)

\* a task of the list was deleted from the collection after its confirmation,
\* and a later step (a request that was closed, or a listener) followed
C29_Witness ==
    /\ Len(deletion.calls) = 1
    /\ deletion.calls[1] \notin DOMAIN store
    /\ deletion.pending = <<>>
    /\ ~deletion.showDeleteConfirm
    /\ deletion.taskToDelete = None
    /\ toast = NoToast
    /\ Len(tasks) >= 1

-----------------------------------------------------------------------------
(* The document limit *)

TotalFiles(f) == Len(f.taskImages) + Len(f.existingImages)

\* the files chosen in this step exceed the slots that remain
SelectionRejected ==
    /\ isTaskDialogOpen
    /\ toast'.title = "Error"

\* C30: the form never holds more than 50 documents, those of the task and
\* the new ones together, and a selection that would exceed the limit adds no
\* file at all
C30_DocumentLimit ==
    /\ [](TotalFiles(form) <= FileLimit)
    /\ [][SelectionRejected => form' = form]_vars
    /\ [][Len(form'.taskImages) > Len(form.taskImages) =>
            TotalFiles(form') <= FileLimit]_vars

\* a task with 49 documents got a fiftieth in the form, and the selection
\* after that was rejected
C30_Witness ==
    /\ isTaskDialogOpen
    /\ Len(form.existingImages) = FileLimit - 1
    /\ Len(form.taskImages) = 1
    /\ toast = Toast("Error", "You can only add 0 more files")

=============================================================================

